---- MODULE Spec2Model ----
(***************************************************************************)
(* The fee-bump engine of src/wallet/feebumper.cpp as a state machine.     *)
(*                                                                         *)
(* State: one wallet (its transaction record store mapWallet, the second   *)
(* record representation mapRecords, the wallet kind), the chain view the  *)
(* engine reads (descendants, spent coins) and, per caller, the variables  *)
(* the caller passes by reference to the three entry points (errors,       *)
(* old_fee, new_fee, mtx, bumped_txid).                                    *)
(*                                                                         *)
(* Every entry point takes cs_wallet for its whole body, so each call is   *)
(* one atomic action; build and commit are separate actions, and the       *)
(* environment (chain, mempool, other wallet activity) may act between.    *)
(*                                                                         *)
(* A transaction id is modelled by the transaction's content (GetHash is   *)
(* injective on contents).  Sequence numbers are modelled in 4 bits        *)
(* (0xF stands for 0xffffffff), amounts and sizes are small integers.      *)
(***************************************************************************)
EXTENDS Integers, Sequences, FiniteSets, TLC

VARIABLES
    fParticlMode,     \* global: the process runs in Particl mode
    isParticlWallet,  \* the wallet is a CHDWallet (IsParticlWallet / GetParticlWallet)
    watchOnlyWallet,  \* legacy key manager with WALLET_FLAG_DISABLE_PRIVATE_KEYS
    mapWallet,        \* txid -> [depth, mapValue]   (CWalletTx records)
    mapRecords,       \* txid -> [depth]             (CTransactionRecord records)
    walletSpends,     \* txids some wallet transaction spends an output of
    mempoolDesc,      \* txids with descendants in the mempool
    spentCoins,       \* outpoints the chain view no longer finds
    broadcast,        \* history: the (original, replacement) pairs handed to wallet.CommitTransaction
    caller,           \* per caller: the by-reference arguments of its calls
    last,             \* the call that produced this state (an observation, not program state)
    envLeft,          \* environment steps the behaviour may still take
    callsLeft,        \* engine calls the behaviour may still make
    cs_wallet,        \* the wallet's mutex: the caller holding it, or NoHolder
    pc                \* per caller: where its call in progress stands

vars == <<fParticlMode, isParticlWallet, watchOnlyWallet, mapWallet, mapRecords,
          walletSpends, mempoolDesc, spentCoins, broadcast, caller, last, envLeft, callsLeft,
          cs_wallet, pc>>

walletVars == <<mapWallet, mapRecords>>
kindVars == <<fParticlMode, isParticlWallet, watchOnlyWallet>>
chainVars == <<walletSpends, mempoolDesc, spentCoins>>
\* a step that runs a whole operation takes the mutex and releases it within the
\* step, and leaves these as they were
lockVars == <<cs_wallet, pc>>

-----------------------------------------------------------------------------
(* Bounds of the model *)

\* Spec: environment steps (confirmations, conflicts, descendants, spent coins)
\* and engine calls (builds, commits) per behaviour
MaxEnv == 1
MaxCalls == 4
\* SpecBuild: commits after the one build
MaxCommitsBuild == 1
\* SpecCheck: environment steps after the wallet was drawn
MaxEnvCheck == 1

Callers == {"c1", "c2"}

-----------------------------------------------------------------------------
(* Results, feebumper::Result *)

OK == "OK"
INVALID_ADDRESS_OR_KEY == "INVALID_ADDRESS_OR_KEY"
INVALID_PARAMETER == "INVALID_PARAMETER"
WALLET_ERROR == "WALLET_ERROR"
MISC_ERROR == "MISC_ERROR"
\* not a Result: the call hit a failing assert and the process aborted
ABORTED == "ABORTED"

Results == {OK, INVALID_ADDRESS_OR_KEY, INVALID_PARAMETER, WALLET_ERROR, MISC_ERROR}

\* a diagnostic: the message and, where the message names one, the outpoint
Diag(msg) == [msg |-> msg, at |-> ""]
DiagAt(msg, prevout) == [msg |-> msg, at |-> prevout]

-----------------------------------------------------------------------------
(* Transactions *)

\* 4-bit images of the sequence numbers 0xffffffff, 0xfffffffe, 0xfffffffd
SEQUENCE_FINAL == 15
SEQUENCE_NONRBF == 14
MAX_BIP125_RBF_SEQUENCE == 13

TxIn(prevout, nSequence) == [prevout |-> prevout, nSequence |-> nSequence]
TxOut(nValue, dest) == [nValue |-> nValue, dest |-> dest]
MkTx(vin, vout) == [vin |-> vin, vout |-> vout]

\* uint256(): the null id, and the default-constructed CMutableTransaction
NullTx == MkTx(<<>>, <<>>)
IsNull(txid) == txid = NullTx

\* wallet-owned previous outputs: spendable, watch-only; everything else is foreign
SpendableOutpoints == {"m1", "m2"}
WatchOnlyOutpoints == {"w1"}
ExternalOutpoints == {"e1"}
Outpoints == SpendableOutpoints \cup WatchOnlyOutpoints \cup ExternalOutpoints

\* destinations the wallet recognises as its own change
ChangeDests == {"chg1", "chg2"}
PayeeDests == {"pay1", "pay2"}

\* the transactions a wallet may hold when the engine is first called
TxPlain == MkTx(<<TxIn("m1", MAX_BIP125_RBF_SEQUENCE)>>,
                <<TxOut(300, "pay1"), TxOut(2500, "chg1")>>)
TxForeign == MkTx(<<TxIn("m1", MAX_BIP125_RBF_SEQUENCE), TxIn("e1", SEQUENCE_FINAL)>>,
                  <<TxOut(2500, "pay1"), TxOut(300, "chg1")>>)
TxWatch == MkTx(<<TxIn("w1", MAX_BIP125_RBF_SEQUENCE)>>,
                <<TxOut(300, "chg1"), TxOut(500, "pay1")>>)
TxFinal == MkTx(<<TxIn("m1", SEQUENCE_FINAL), TxIn("m2", SEQUENCE_NONRBF)>>,
                <<TxOut(2500, "pay1"), TxOut(1300, "chg1")>>)
TxNoChange == MkTx(<<TxIn("m1", MAX_BIP125_RBF_SEQUENCE)>>,
                   <<TxOut(2500, "pay1"), TxOut(300, "pay2")>>)
TxTwoChange == MkTx(<<TxIn("m1", 0), TxIn("m2", SEQUENCE_FINAL)>>,
                    <<TxOut(2500, "chg2"), TxOut(1300, "chg1")>>)
TxSmallChange == MkTx(<<TxIn("m2", MAX_BIP125_RBF_SEQUENCE)>>,
                      <<TxOut(400, "pay1"), TxOut(450, "chg1")>>)
TxMixedSeq == MkTx(<<TxIn("m1", 0), TxIn("m2", SEQUENCE_FINAL)>>,
                   <<TxOut(300, "pay1"), TxOut(3500, "chg1")>>)
OriginalTxs ==
    {TxPlain, TxForeign, TxWatch, TxFinal, TxNoChange, TxTwoChange, TxSmallChange, TxMixedSeq}

\* the transaction held in the second record representation, and one the wallet does not know
TxRecord == MkTx(<<TxIn("m2", MAX_BIP125_RBF_SEQUENCE)>>, <<TxOut(700, "pay2")>>)
TxUnknown == MkTx(<<TxIn("e1", MAX_BIP125_RBF_SEQUENCE)>>, <<TxOut(100, "pay2")>>)

RECURSIVE SumValues(_)
SumValues(vout) ==
    IF vout = <<>> THEN 0 ELSE Head(vout).nValue + SumValues(Tail(vout))

\* CTransaction::GetValueOut
GetValueOut(tx) == SumValues(tx.vout)

\* remove the element at index i (1-based) of a sequence: vector::erase(begin() + i)
EraseAt(s, i) == [k \in 1..(Len(s) - 1) |-> IF k < i THEN s[k] ELSE s[k + 1]]

-----------------------------------------------------------------------------
(* What the engine reads from the wallet and the chain *)

\* CWallet::IsMine(outpoint): "spendable", "watch_only" or "no"
IsMine(prevout) ==
    IF prevout \in SpendableOutpoints THEN "spendable"
    ELSE IF prevout \in WatchOnlyOutpoints THEN "watch_only"
    ELSE "no"

\* AllInputsMine(wallet, tx, filter): every input's previous output matches the filter
AllInputsMine(tx, filter) ==
    \A i \in 1..Len(tx.vin) : IsMine(tx.vin[i].prevout) = filter

\* SignalsOptInRBF: some input's sequence number is at most MAX_BIP125_RBF_SEQUENCE
SignalsOptInRBF(tx) ==
    \E i \in 1..Len(tx.vin) : tx.vin[i].nSequence <= MAX_BIP125_RBF_SEQUENCE

\* CWallet::HasWalletSpend, Chain::hasDescendantsInMempool, GetTxDepthInMainChain
HasWalletSpend(txid) == txid \in walletSpends
hasDescendantsInMempool(txid) == txid \in mempoolDesc
GetTxDepthInMainChain(txid) == mapWallet[txid].depth
GetDepthInMainChain(txid) == mapRecords[txid].depth

\* the wallet recognises the output as change (CHDWallet::IsChange, OutputIsChange)
IsChange(out) == out.dest \in ChangeDests

\* a call's outcome: the Result and the diagnostics list after it
Ret(result, errors) == [result |-> result, errors |-> errors]

-----------------------------------------------------------------------------
(* PreconditionChecks, lines 25-65 *)

\* lines 54-62: the ownership test, made only with require_mine
\* a filter that never accepts watch-only inputs
OwnershipFilterSpendable == "spendable"

OwnershipFilter == IF watchOnlyWallet THEN "watch_only" ELSE "spendable"

\* a checker that does not look at the confirmation depth
PreconditionChecksNoDepth(txid, require_mine, errors) ==
    IF HasWalletSpend(txid)
    THEN Ret(INVALID_PARAMETER, Append(errors, Diag("Transaction has descendants in the wallet")))
    ELSE IF hasDescendantsInMempool(txid)
    THEN Ret(INVALID_PARAMETER, Append(errors, Diag("Transaction has descendants in the mempool")))
    ELSE IF ~SignalsOptInRBF(txid)
    THEN Ret(WALLET_ERROR, Append(errors, Diag("Transaction is not BIP 125 replaceable")))
    ELSE IF "replaced_by_txid" \in DOMAIN mapWallet[txid].mapValue
    THEN Ret(WALLET_ERROR, Append(errors, Diag("Cannot bump transaction which was already bumped")))
    ELSE IF require_mine /\ ~AllInputsMine(txid, OwnershipFilter)
    THEN Ret(WALLET_ERROR, Append(errors, Diag("Transaction contains inputs that don't belong to this wallet")))
    ELSE Ret(OK, errors)

\* a check that asks for ownership whether or not the caller requires it
PreconditionChecksAlwaysMine(txid, require_mine, errors) ==
    IF HasWalletSpend(txid)
    THEN Ret(INVALID_PARAMETER, Append(errors, Diag("Transaction has descendants in the wallet")))
    ELSE IF hasDescendantsInMempool(txid)
    THEN Ret(INVALID_PARAMETER, Append(errors, Diag("Transaction has descendants in the mempool")))
    ELSE IF GetTxDepthInMainChain(txid) # 0
    THEN Ret(WALLET_ERROR, Append(errors, Diag("Transaction has been mined, or is conflicted with a mined transaction")))
    ELSE IF ~SignalsOptInRBF(txid)
    THEN Ret(WALLET_ERROR, Append(errors, Diag("Transaction is not BIP 125 replaceable")))
    ELSE IF "replaced_by_txid" \in DOMAIN mapWallet[txid].mapValue
    THEN Ret(WALLET_ERROR, Append(errors, Diag("Cannot bump transaction which was already bumped")))
    ELSE IF ~AllInputsMine(txid, OwnershipFilter)
    THEN Ret(WALLET_ERROR, Append(errors, Diag("Transaction contains inputs that don't belong to this wallet")))
    ELSE Ret(OK, errors)

\* a check that looks at the depth before the descendants
PreconditionChecksDepthFirst(txid, require_mine, errors) ==
    IF GetTxDepthInMainChain(txid) # 0
    THEN Ret(WALLET_ERROR, Append(errors, Diag("Transaction has been mined, or is conflicted with a mined transaction")))
    ELSE IF HasWalletSpend(txid)
    THEN Ret(INVALID_PARAMETER, Append(errors, Diag("Transaction has descendants in the wallet")))
    ELSE IF hasDescendantsInMempool(txid)
    THEN Ret(INVALID_PARAMETER, Append(errors, Diag("Transaction has descendants in the mempool")))
    ELSE IF ~SignalsOptInRBF(txid)
    THEN Ret(WALLET_ERROR, Append(errors, Diag("Transaction is not BIP 125 replaceable")))
    ELSE IF "replaced_by_txid" \in DOMAIN mapWallet[txid].mapValue
    THEN Ret(WALLET_ERROR, Append(errors, Diag("Cannot bump transaction which was already bumped")))
    ELSE IF require_mine /\ ~AllInputsMine(txid, OwnershipFilter)
    THEN Ret(WALLET_ERROR, Append(errors, Diag("Transaction contains inputs that don't belong to this wallet")))
    ELSE Ret(OK, errors)

PreconditionChecks(txid, require_mine, errors) ==
    IF HasWalletSpend(txid)
    THEN Ret(INVALID_PARAMETER, Append(errors, Diag("Transaction has descendants in the wallet")))
    ELSE IF hasDescendantsInMempool(txid)
    THEN Ret(INVALID_PARAMETER, Append(errors, Diag("Transaction has descendants in the mempool")))
    ELSE IF GetTxDepthInMainChain(txid) # 0
    THEN Ret(WALLET_ERROR, Append(errors, Diag("Transaction has been mined, or is conflicted with a mined transaction")))
    ELSE IF ~SignalsOptInRBF(txid)
    THEN Ret(WALLET_ERROR, Append(errors, Diag("Transaction is not BIP 125 replaceable")))
    ELSE IF "replaced_by_txid" \in DOMAIN mapWallet[txid].mapValue
    THEN Ret(WALLET_ERROR, Append(errors, Diag("Cannot bump transaction which was already bumped")))
    ELSE IF require_mine /\ ~AllInputsMine(txid, OwnershipFilter)
    THEN Ret(WALLET_ERROR, Append(errors, Diag("Transaction contains inputs that don't belong to this wallet")))
    ELSE Ret(OK, errors)

\* a record checker that is nothing but its unfinished tail
PreconditionChecksRecordTodoOnly(hash, errors) ==
    Ret(WALLET_ERROR, Append(errors, Diag("TODO: mapRecord txn")))

\* PreconditionChecks for a mapRecords record, lines 67-107
PreconditionChecksRecord(hash, errors) ==
    IF HasWalletSpend(hash)
    THEN Ret(INVALID_PARAMETER, Append(errors, Diag("Transaction has descendants in the wallet")))
    ELSE IF hasDescendantsInMempool(hash)
    THEN Ret(INVALID_PARAMETER, Append(errors, Diag("Transaction has descendants in the mempool")))
    ELSE IF GetDepthInMainChain(hash) # 0
    THEN Ret(WALLET_ERROR, Append(errors, Diag("Transaction has been mined, or is conflicted with a mined transaction")))
    ELSE Ret(WALLET_ERROR, Append(errors, Diag("TODO: mapRecord txn")))

-----------------------------------------------------------------------------
(* TransactionCanBeBumped, lines 190-222 *)

\* an answer that does not ask for ownership of the inputs
TransactionCanBeBumpedLenient(txid) ==
    IF fParticlMode
    THEN IF ~isParticlWallet THEN FALSE
         ELSE IF txid \in DOMAIN mapWallet
              THEN PreconditionChecks(txid, FALSE, <<>>).result = OK
              ELSE IF txid \in DOMAIN mapRecords
                   THEN PreconditionChecksRecord(txid, <<>>).result = OK
                   ELSE FALSE
    ELSE IF txid \notin DOMAIN mapWallet THEN FALSE
         ELSE PreconditionChecks(txid, FALSE, <<>>).result = OK

TransactionCanBeBumped(txid) ==
    IF fParticlMode
    THEN IF ~isParticlWallet THEN FALSE
         ELSE IF txid \in DOMAIN mapWallet
              THEN PreconditionChecks(txid, TRUE, <<>>).result = OK
              ELSE IF txid \in DOMAIN mapRecords
                   THEN PreconditionChecksRecord(txid, <<>>).result = OK
                   ELSE FALSE
    ELSE IF txid \notin DOMAIN mapWallet THEN FALSE
         ELSE PreconditionChecks(txid, TRUE, <<>>).result = OK


-----------------------------------------------------------------------------
(* Fee-rate arithmetic (CFeeRate) *)

\* C++ integer division, truncating toward zero (d > 0)
TruncDiv(n, d) == IF n >= 0 THEN n \div d ELSE -((-n) \div d)
\* ceil(n / d) for d > 0
CeilDiv(n, d) == -((-n) \div d)
Max(a, b) == IF a >= b THEN a ELSE b

\* CFeeRate(nFeePaid, num_bytes): the rate in units per 1000 bytes
CFeeRate(nFeePaid, nSize) == IF nSize > 0 THEN TruncDiv(nFeePaid * 1000, nSize) ELSE 0

\* CFeeRate::GetFee(num_bytes): the fee of a rate at a size, rounded up, never
\* zero for a non-zero rate at a non-zero size
GetFee(nSatoshisPerK, nSize) ==
    LET nFee == CeilDiv(nSatoshisPerK * nSize, 1000)
    IN  IF nFee = 0 /\ nSize # 0
        THEN (IF nSatoshisPerK > 0 THEN 1 ELSE IF nSatoshisPerK < 0 THEN -1 ELSE 0)
        ELSE nFee

\* the wallet's conservative relay increment, per 1000 bytes
WALLET_INCREMENTAL_RELAY_FEE == 5000

-----------------------------------------------------------------------------
(* What a build reads from its environment during one call *)

\* value of each previous output (the coin the chain view or the wallet returns)
CoinValue(prevout) ==
    CASE prevout = "m1" -> 3000
      [] prevout = "m2" -> 1000
      [] prevout = "w1" -> 1000
      [] OTHER -> 400

\* GetVirtualTransactionSize: grows with the inputs and outputs
GetVirtualTransactionSize(tx) == 10 + 40 * Len(tx.vin) + 10 * Len(tx.vout)
\* GetTransactionInputWeight
GetTransactionInputWeight(txin) == 160

\* the chain's and the wallet's answers during one call:
\*   relayIncrementalFee  chain().relayIncrementalFee(), per 1000 bytes
\*   mempoolMinFee        chain().mempoolMinFee(), per 1000 bytes
\*   minimumFeeRate       GetMinimumFeeRate(wallet, coin_control), per 1000 bytes
\*   requiredFeeRate      GetRequiredFeeRate(wallet), per 1000 bytes
\*   max_tx_fee           wallet.m_default_max_tx_fee
\*   dustThreshold        GetDustThreshold(change output, GetDiscardRate(wallet))
\*   maxSizeExtra         CalculateMaximumSignedTxSize minus the current size; -1: cannot be signed
\*   weightDiffToMax      SignatureWeights::GetWeightDiffToMax of an external input
\*   builder              what CreateTransaction does with the request
\*   m_signal_rbf         the wallet's default for replaceability signalling
ChainEnvProduct ==
    [relayIncrementalFee : {1000, 6000},
     mempoolMinFee : {1000, 20000},
     minimumFeeRate : {1000, 8571, 9000},
     requiredFeeRate : {1000, 9000},
     max_tx_fee : {550, 100000},
     dustThreshold : {50, 200},
     maxSizeExtra : {-1, 0, 4},
     weightDiffToMax : {0, 2},
     builder : {"ok", "ok_extra_input", "fail"},
     m_signal_rbf : BOOLEAN]

\* an unremarkable environment
BaseEnv ==
    [relayIncrementalFee |-> 1000, mempoolMinFee |-> 1000, minimumFeeRate |-> 1000,
     requiredFeeRate |-> 1000, max_tx_fee |-> 100000, dustThreshold |-> 50,
     maxSizeExtra |-> 0, weightDiffToMax |-> 0, builder |-> "ok", m_signal_rbf |-> FALSE]

\* the number of answers in which an environment differs from BaseEnv
Deviations(env) == Cardinality({f \in DOMAIN BaseEnv : env[f] # BaseEnv[f]})

\* SpecBuild: the environments that differ from BaseEnv in at most two answers
ChainEnvs == {env \in ChainEnvProduct : Deviations(env) <= 2}

\* Spec: the unremarkable environment, and one whose relay increment has risen
LifeEnvs == {BaseEnv, [BaseEnv EXCEPT !.relayIncrementalFee = 6000]}

\* CalculateMaximumSignedTxSize: negative when an input cannot be signed
CalculateMaximumSignedTxSize(tx, env) ==
    IF env.maxSizeExtra < 0 THEN -1 ELSE GetVirtualTransactionSize(tx) + env.maxSizeExtra

\* CachedTxGetDebit(wallet, wtx, ISMINE_SPENDABLE): the value of the spendable inputs
RECURSIVE DebitOf(_)
DebitOf(vin) ==
    IF vin = <<>> THEN 0
    ELSE (IF IsMine(Head(vin).prevout) = "spendable" THEN CoinValue(Head(vin).prevout) ELSE 0)
         + DebitOf(Tail(vin))
CachedTxGetDebit(tx) == DebitOf(tx.vin)

\* GetRequiredFee, GetMinimumFee: the wallet's rates at a size
GetRequiredFee(env, nTxBytes) == GetFee(env.requiredFeeRate, nTxBytes)
GetMinimumFee(env, nTxBytes) == GetFee(env.minimumFeeRate, nTxBytes)

-----------------------------------------------------------------------------
(* CheckFeeRate, lines 110-159, and EstimateFeeRate, lines 161-186 *)

\* a check of the explicit rate that looks at the ceiling before the old fee
\* plus the relay increment
CheckFeeRateCeilingFirst(tx, newFeerate, maxTxSize, old_fee, errors, env) ==
    LET new_total_fee == GetFee(newFeerate, maxTxSize)
        incrementalRelayFee == Max(env.relayIncrementalFee, WALLET_INCREMENTAL_RELAY_FEE)
        txSize == GetVirtualTransactionSize(tx)
        nOldFeeRate == CFeeRate(old_fee, txSize)
        minTotalFee == GetFee(nOldFeeRate, maxTxSize) + GetFee(incrementalRelayFee, maxTxSize)
        requiredFee == GetRequiredFee(env, maxTxSize)
    IN  IF newFeerate < env.mempoolMinFee
        THEN Ret(WALLET_ERROR, Append(errors, Diag("New fee rate is lower than the minimum fee rate to get into the mempool")))
        ELSE IF new_total_fee > env.max_tx_fee
        THEN Ret(WALLET_ERROR, Append(errors, Diag("Specified or calculated fee is too high (cannot be higher than -maxtxfee)")))
        ELSE IF new_total_fee < minTotalFee
        THEN Ret(INVALID_PARAMETER, Append(errors, Diag("Insufficient total fee, must be at least oldFee + incrementalFee")))
        ELSE IF new_total_fee < requiredFee
        THEN Ret(INVALID_PARAMETER, Append(errors, Diag("Insufficient total fee (cannot be less than required fee)")))
        ELSE Ret(OK, errors)

\* a check of the explicit rate that does not ask for the old fee plus the
\* relay increment
CheckFeeRateNoIncrement(tx, newFeerate, maxTxSize, old_fee, errors, env) ==
    LET new_total_fee == GetFee(newFeerate, maxTxSize)
        requiredFee == GetRequiredFee(env, maxTxSize)
    IN  IF newFeerate < env.mempoolMinFee
        THEN Ret(WALLET_ERROR, Append(errors, Diag("New fee rate is lower than the minimum fee rate to get into the mempool")))
        ELSE IF new_total_fee < requiredFee
        THEN Ret(INVALID_PARAMETER, Append(errors, Diag("Insufficient total fee (cannot be less than required fee)")))
        ELSE IF new_total_fee > env.max_tx_fee
        THEN Ret(WALLET_ERROR, Append(errors, Diag("Specified or calculated fee is too high (cannot be higher than -maxtxfee)")))
        ELSE Ret(OK, errors)

CheckFeeRate(tx, newFeerate, maxTxSize, old_fee, errors, env) ==
    LET new_total_fee == GetFee(newFeerate, maxTxSize)
        incrementalRelayFee == Max(env.relayIncrementalFee, WALLET_INCREMENTAL_RELAY_FEE)
        txSize == GetVirtualTransactionSize(tx)
        nOldFeeRate == CFeeRate(old_fee, txSize)
        minTotalFee == GetFee(nOldFeeRate, maxTxSize) + GetFee(incrementalRelayFee, maxTxSize)
        requiredFee == GetRequiredFee(env, maxTxSize)
    IN  IF newFeerate < env.mempoolMinFee
        THEN Ret(WALLET_ERROR, Append(errors, Diag("New fee rate is lower than the minimum fee rate to get into the mempool")))
        ELSE IF new_total_fee < minTotalFee
        THEN Ret(INVALID_PARAMETER, Append(errors, Diag("Insufficient total fee, must be at least oldFee + incrementalFee")))
        ELSE IF new_total_fee < requiredFee
        THEN Ret(INVALID_PARAMETER, Append(errors, Diag("Insufficient total fee (cannot be less than required fee)")))
        ELSE IF new_total_fee > env.max_tx_fee
        THEN Ret(WALLET_ERROR, Append(errors, Diag("Specified or calculated fee is too high (cannot be higher than -maxtxfee)")))
        ELSE Ret(OK, errors)

\* an estimate that is not clamped to the wallet's minimum fee rate
EstimateFeeRateNoClamp(tx, old_fee, env) ==
    CFeeRate(old_fee, GetVirtualTransactionSize(tx)) + 1
    + Max(env.relayIncrementalFee, WALLET_INCREMENTAL_RELAY_FEE)

EstimateFeeRate(tx, old_fee, env) ==
    LET txSize == GetVirtualTransactionSize(tx)
        feerate == CFeeRate(old_fee, txSize) + 1
                   + Max(env.relayIncrementalFee, WALLET_INCREMENTAL_RELAY_FEE)
    IN  Max(feerate, env.minimumFeeRate)


-----------------------------------------------------------------------------
(* The caller's request (CCoinControl) and by-reference arguments *)

\* no explicit fee rate: coin_control.m_feerate is unset
NoRate == -1

\* the requests the callers make: an optional explicit fee rate (per 1000 bytes),
\* a minimum-depth floor, and the optional replaceability signal
\* (std::optional m_signal_bip125_rbf: whether it has a value, and the value)
CoinControl(m_feerate, m_min_depth, signal_rbf) ==
    [m_feerate |-> m_feerate, m_min_depth |-> m_min_depth,
     has_signal_rbf |-> TRUE, signal_rbf |-> signal_rbf]
CoinControlUnset(m_feerate, m_min_depth) ==
    [m_feerate |-> m_feerate, m_min_depth |-> m_min_depth,
     has_signal_rbf |-> FALSE, signal_rbf |-> FALSE]
\* m_signal_bip125_rbf.value_or(wallet->m_signal_rbf), line 339
SignalsRbf(cc, env) == IF cc.has_signal_rbf THEN cc.signal_rbf ELSE env.m_signal_rbf
CoinControls ==
    {CoinControl(NoRate, 0, TRUE), CoinControl(NoRate, 3, FALSE), CoinControlUnset(NoRate, 0),
     CoinControl(500, 0, TRUE), CoinControl(8000, 3, TRUE), CoinControl(8000, 0, FALSE),
     CoinControl(20000, 0, TRUE), CoinControl(7850, 0, TRUE)}
\* Spec: no explicit rate
LifeControls == {CoinControl(NoRate, 0, TRUE)}

\* the variables a caller passes by reference, as a fresh caller holds them
FreshCaller ==
    [errors |-> <<>>, old_fee |-> 0, new_fee |-> 0, mtx |-> NullTx,
     bumped_txid |-> NullTx, txid |-> NullTx]

\* the mutex is free; a caller has no call in progress, or has one that waits
\* for the mutex or runs under it
NoHolder == "none"
Idle == [at |-> "idle"]
InCall(at, op, txid, env) == [at |-> at, op |-> op, txid |-> txid, env |-> env]

\* a build's outcome: the Result (or ABORTED), the by-reference arguments after
\* the call, and the request handed to the transaction builder (if it got that far)
NoRequest == [reached |-> FALSE]
Built(result, errors, old_fee, new_fee, mtx, request) ==
    [result |-> result, errors |-> errors, old_fee |-> old_fee, new_fee |-> new_fee,
     mtx |-> mtx, request |-> request]

-----------------------------------------------------------------------------
(* CreateTotalBumpTransaction, lines 224-349 *)

\* lines 243-258: the indices of the outputs the wallet recognises as change
ChangeOutputs(tx) == {i \in 1..Len(tx.vout) : IsChange(tx.vout[i])}

\* a marking that sets every sequence number to 0xfffffffe
MarkNotReplaceableAll(vin) ==
    [i \in 1..Len(vin) |-> [vin[i] EXCEPT !.nSequence = SEQUENCE_NONRBF]]

\* lines 338-343: raise every sequence number below 0xfffffffe to it
MarkNotReplaceable(vin) ==
    [i \in 1..Len(vin) |->
        IF vin[i].nSequence < SEQUENCE_NONRBF
        THEN [vin[i] EXCEPT !.nSequence = SEQUENCE_NONRBF] ELSE vin[i]]

\* a pricing that takes the wallet's minimum fee without raising it to the floor
TotalBumpPriceMinimumOnly(tx, nOutput, cc, env, cur) ==
    LET txSize == GetVirtualTransactionSize(tx)
        maxNewTxSize == CalculateMaximumSignedTxSize(tx, env)
        old_fee == CachedTxGetDebit(tx) - GetValueOut(tx)
        nOldFeeRate == CFeeRate(old_fee, txSize)
        walletIncrementalRelayFee ==
            IF env.relayIncrementalFee > WALLET_INCREMENTAL_RELAY_FEE
            THEN env.relayIncrementalFee ELSE WALLET_INCREMENTAL_RELAY_FEE
        minFee == GetMinimumFee(env, maxNewTxSize)
        floorRate == nOldFeeRate + 1 + walletIncrementalRelayFee
        raised == FALSE
        nNewFeeRate == IF raised THEN floorRate ELSE CFeeRate(minFee, maxNewTxSize)
        new_fee == IF raised THEN GetFee(nNewFeeRate, maxNewTxSize) ELSE minFee
        nDelta == new_fee - old_fee
        shrunk == tx.vout[nOutput].nValue - nDelta
        isDust == shrunk <= env.dustThreshold
        vout == IF isDust THEN EraseAt(tx.vout, nOutput)
                ELSE [tx.vout EXCEPT ![nOutput].nValue = shrunk]
        vin == IF SignalsRbf(cc, env) THEN tx.vin ELSE MarkNotReplaceable(tx.vin)
    IN  IF maxNewTxSize < 0
        THEN Built(INVALID_ADDRESS_OR_KEY,
                   <<Diag("Transaction contains inputs that cannot be signed")>>,
                   cur.old_fee, 0, cur.mtx, NoRequest)
        ELSE IF new_fee > env.max_tx_fee
        THEN Built(WALLET_ERROR,
                   <<Diag("Specified or calculated fee is too high (cannot be higher than maxTxFee)")>>,
                   old_fee, new_fee, cur.mtx, NoRequest)
        ELSE IF nNewFeeRate < env.mempoolMinFee
        THEN Built(WALLET_ERROR,
                   <<Diag("New fee rate is lower than the minimum fee rate to get into the mempool")>>,
                   old_fee, new_fee, cur.mtx, NoRequest)
        ELSE IF ~(nDelta > 0)
        THEN Built(ABORTED, <<>>, old_fee, new_fee, cur.mtx, NoRequest)
        ELSE IF tx.vout[nOutput].nValue < nDelta
        THEN Built(WALLET_ERROR, <<Diag("Change output is too small to bump the fee")>>,
                   old_fee, new_fee, tx, NoRequest)
        ELSE Built(OK, <<>>, old_fee, (IF isDust THEN new_fee + shrunk ELSE new_fee),
                   MkTx(vin, vout), NoRequest)

\* a pricing that also refuses a change output worth exactly the delta
TotalBumpPriceStrict(tx, nOutput, cc, env, cur) ==
    LET txSize == GetVirtualTransactionSize(tx)
        maxNewTxSize == CalculateMaximumSignedTxSize(tx, env)
        old_fee == CachedTxGetDebit(tx) - GetValueOut(tx)
        nOldFeeRate == CFeeRate(old_fee, txSize)
        walletIncrementalRelayFee ==
            IF env.relayIncrementalFee > WALLET_INCREMENTAL_RELAY_FEE
            THEN env.relayIncrementalFee ELSE WALLET_INCREMENTAL_RELAY_FEE
        minFee == GetMinimumFee(env, maxNewTxSize)
        floorRate == nOldFeeRate + 1 + walletIncrementalRelayFee
        raised == CFeeRate(minFee, maxNewTxSize) < floorRate
        nNewFeeRate == IF raised THEN floorRate ELSE CFeeRate(minFee, maxNewTxSize)
        new_fee == IF raised THEN GetFee(nNewFeeRate, maxNewTxSize) ELSE minFee
        nDelta == new_fee - old_fee
        shrunk == tx.vout[nOutput].nValue - nDelta
        isDust == shrunk <= env.dustThreshold
        vout == IF isDust THEN EraseAt(tx.vout, nOutput)
                ELSE [tx.vout EXCEPT ![nOutput].nValue = shrunk]
        vin == IF SignalsRbf(cc, env) THEN tx.vin ELSE MarkNotReplaceable(tx.vin)
    IN  IF maxNewTxSize < 0
        THEN Built(INVALID_ADDRESS_OR_KEY,
                   <<Diag("Transaction contains inputs that cannot be signed")>>,
                   cur.old_fee, 0, cur.mtx, NoRequest)
        ELSE IF new_fee > env.max_tx_fee
        THEN Built(WALLET_ERROR,
                   <<Diag("Specified or calculated fee is too high (cannot be higher than maxTxFee)")>>,
                   old_fee, new_fee, cur.mtx, NoRequest)
        ELSE IF nNewFeeRate < env.mempoolMinFee
        THEN Built(WALLET_ERROR,
                   <<Diag("New fee rate is lower than the minimum fee rate to get into the mempool")>>,
                   old_fee, new_fee, cur.mtx, NoRequest)
        ELSE IF ~(nDelta > 0)
        THEN Built(ABORTED, <<>>, old_fee, new_fee, cur.mtx, NoRequest)
        ELSE IF tx.vout[nOutput].nValue <= nDelta
        THEN Built(WALLET_ERROR, <<Diag("Change output is too small to bump the fee")>>,
                   old_fee, new_fee, tx, NoRequest)
        ELSE Built(OK, <<>>, old_fee, (IF isDust THEN new_fee + shrunk ELSE new_fee),
                   MkTx(vin, vout), NoRequest)

\* a pricing that erases a dust change output without adding its value to the fee
TotalBumpPriceDroppingDust(tx, nOutput, cc, env, cur) ==
    LET txSize == GetVirtualTransactionSize(tx)
        maxNewTxSize == CalculateMaximumSignedTxSize(tx, env)
        old_fee == CachedTxGetDebit(tx) - GetValueOut(tx)
        nOldFeeRate == CFeeRate(old_fee, txSize)
        walletIncrementalRelayFee ==
            IF env.relayIncrementalFee > WALLET_INCREMENTAL_RELAY_FEE
            THEN env.relayIncrementalFee ELSE WALLET_INCREMENTAL_RELAY_FEE
        minFee == GetMinimumFee(env, maxNewTxSize)
        floorRate == nOldFeeRate + 1 + walletIncrementalRelayFee
        raised == CFeeRate(minFee, maxNewTxSize) < floorRate
        nNewFeeRate == IF raised THEN floorRate ELSE CFeeRate(minFee, maxNewTxSize)
        new_fee == IF raised THEN GetFee(nNewFeeRate, maxNewTxSize) ELSE minFee
        nDelta == new_fee - old_fee
        shrunk == tx.vout[nOutput].nValue - nDelta
        isDust == shrunk <= env.dustThreshold
        vout == IF isDust THEN EraseAt(tx.vout, nOutput)
                ELSE [tx.vout EXCEPT ![nOutput].nValue = shrunk]
        vin == IF SignalsRbf(cc, env) THEN tx.vin ELSE MarkNotReplaceable(tx.vin)
    IN  IF maxNewTxSize < 0
        THEN Built(INVALID_ADDRESS_OR_KEY,
                   <<Diag("Transaction contains inputs that cannot be signed")>>,
                   cur.old_fee, 0, cur.mtx, NoRequest)
        ELSE IF new_fee > env.max_tx_fee
        THEN Built(WALLET_ERROR,
                   <<Diag("Specified or calculated fee is too high (cannot be higher than maxTxFee)")>>,
                   old_fee, new_fee, cur.mtx, NoRequest)
        ELSE IF nNewFeeRate < env.mempoolMinFee
        THEN Built(WALLET_ERROR,
                   <<Diag("New fee rate is lower than the minimum fee rate to get into the mempool")>>,
                   old_fee, new_fee, cur.mtx, NoRequest)
        ELSE IF ~(nDelta > 0)
        THEN Built(ABORTED, <<>>, old_fee, new_fee, cur.mtx, NoRequest)
        ELSE IF tx.vout[nOutput].nValue < nDelta
        THEN Built(WALLET_ERROR, <<Diag("Change output is too small to bump the fee")>>,
                   old_fee, new_fee, tx, NoRequest)
        ELSE Built(OK, <<>>, old_fee, new_fee,
                   MkTx(vin, vout), NoRequest)

\* lines 260-344, once the record passed the checks and has one change output
TotalBumpPrice(tx, nOutput, cc, env, cur) ==
    LET txSize == GetVirtualTransactionSize(tx)
        maxNewTxSize == CalculateMaximumSignedTxSize(tx, env)
        old_fee == CachedTxGetDebit(tx) - GetValueOut(tx)
        nOldFeeRate == CFeeRate(old_fee, txSize)
        walletIncrementalRelayFee ==
            IF env.relayIncrementalFee > WALLET_INCREMENTAL_RELAY_FEE
            THEN env.relayIncrementalFee ELSE WALLET_INCREMENTAL_RELAY_FEE
        minFee == GetMinimumFee(env, maxNewTxSize)
        floorRate == nOldFeeRate + 1 + walletIncrementalRelayFee
        raised == CFeeRate(minFee, maxNewTxSize) < floorRate
        nNewFeeRate == IF raised THEN floorRate ELSE CFeeRate(minFee, maxNewTxSize)
        new_fee == IF raised THEN GetFee(nNewFeeRate, maxNewTxSize) ELSE minFee
        nDelta == new_fee - old_fee
        shrunk == tx.vout[nOutput].nValue - nDelta
        isDust == shrunk <= env.dustThreshold
        vout == IF isDust THEN EraseAt(tx.vout, nOutput)
                ELSE [tx.vout EXCEPT ![nOutput].nValue = shrunk]
        vin == IF SignalsRbf(cc, env) THEN tx.vin ELSE MarkNotReplaceable(tx.vin)
    IN  IF maxNewTxSize < 0
        THEN Built(INVALID_ADDRESS_OR_KEY,
                   <<Diag("Transaction contains inputs that cannot be signed")>>,
                   cur.old_fee, 0, cur.mtx, NoRequest)
        ELSE IF new_fee > env.max_tx_fee
        THEN Built(WALLET_ERROR,
                   <<Diag("Specified or calculated fee is too high (cannot be higher than maxTxFee)")>>,
                   old_fee, new_fee, cur.mtx, NoRequest)
        ELSE IF nNewFeeRate < env.mempoolMinFee
        THEN Built(WALLET_ERROR,
                   <<Diag("New fee rate is lower than the minimum fee rate to get into the mempool")>>,
                   old_fee, new_fee, cur.mtx, NoRequest)
        ELSE IF ~(nDelta > 0)
        THEN Built(ABORTED, <<>>, old_fee, new_fee, cur.mtx, NoRequest)
        ELSE IF tx.vout[nOutput].nValue < nDelta
        THEN Built(WALLET_ERROR, <<Diag("Change output is too small to bump the fee")>>,
                   old_fee, new_fee, tx, NoRequest)
        ELSE Built(OK, <<>>, old_fee, (IF isDust THEN new_fee + shrunk ELSE new_fee),
                   MkTx(vin, vout), NoRequest)

\* a total-bump that shrinks the first change output when there are several
CreateTotalBumpTransactionFirstChange(txid, cc, env, cur) ==
    IF ~isParticlWallet
    THEN Built(WALLET_ERROR, <<>>, cur.old_fee, 0, cur.mtx, NoRequest)
    ELSE IF txid \in DOMAIN mapWallet
    THEN LET pre == PreconditionChecks(txid, TRUE, <<>>)
             change == ChangeOutputs(txid)
         IN  IF pre.result # OK
             THEN Built(pre.result, pre.errors, cur.old_fee, 0, cur.mtx, NoRequest)
             ELSE IF change = {}
             THEN Built(WALLET_ERROR, <<Diag("Transaction does not have a change output")>>,
                        cur.old_fee, 0, cur.mtx, NoRequest)
             ELSE TotalBumpPrice(txid, CHOOSE i \in change : \A k \in change : i <= k, cc, env, cur)
    ELSE Built(INVALID_ADDRESS_OR_KEY, <<Diag("Invalid or non-wallet transaction id")>>,
               cur.old_fee, 0, cur.mtx, NoRequest)

CreateTotalBumpTransaction(txid, cc, env, cur) ==
    IF ~isParticlWallet
    THEN Built(WALLET_ERROR, <<>>, cur.old_fee, 0, cur.mtx, NoRequest)
    ELSE IF txid \in DOMAIN mapWallet
    THEN LET pre == PreconditionChecks(txid, TRUE, <<>>)
             change == ChangeOutputs(txid)
         IN  IF pre.result # OK
             THEN Built(pre.result, pre.errors, cur.old_fee, 0, cur.mtx, NoRequest)
             ELSE IF Cardinality(change) > 1
             THEN Built(WALLET_ERROR, <<Diag("Transaction has multiple change outputs")>>,
                        cur.old_fee, 0, cur.mtx, NoRequest)
             ELSE IF change = {}
             THEN Built(WALLET_ERROR, <<Diag("Transaction does not have a change output")>>,
                        cur.old_fee, 0, cur.mtx, NoRequest)
             ELSE TotalBumpPrice(txid, CHOOSE i \in change : TRUE, cc, env, cur)
    ELSE Built(INVALID_ADDRESS_OR_KEY, <<Diag("Invalid or non-wallet transaction id")>>,
               cur.old_fee, 0, cur.mtx, NoRequest)


-----------------------------------------------------------------------------
(* The transaction builder, CreateTransaction (wallet/spend) *)

\* a fixed order of the outpoints, for the inputs of a built transaction
OutpointOrder == <<"e1", "m1", "m2", "w1">>
RECURSIVE SumCoins(_)
SumCoins(vin) ==
    IF vin = <<>> THEN 0 ELSE CoinValue(Head(vin).prevout) + SumCoins(Tail(vin))
RECURSIVE SumRecipients(_)
SumRecipients(rs) ==
    IF rs = <<>> THEN 0 ELSE Head(rs).nAmount + SumRecipients(Tail(rs))

\* build(payees, change_slot, constraints): spends every forced input, may add
\* one confirmed wallet input, pays the payees, returns the rest as change
CreateTransaction(request, env) ==
    LET forced == request.selected \cup request.external
        extra == IF env.builder = "ok_extra_input" /\ request.m_allow_other_inputs
                    /\ "m2" \notin forced /\ "m2" \notin spentCoins
                 THEN {"m2"} ELSE {}
        InTx(o) == o \in forced \cup extra
        prevouts == SelectSeq(OutpointOrder, InTx)
        nSequence == IF SignalsRbf(request, env) THEN MAX_BIP125_RBF_SEQUENCE ELSE SEQUENCE_NONRBF
        vin == [i \in 1..Len(prevouts) |-> TxIn(prevouts[i], nSequence)]
        payees == [i \in 1..Len(request.recipients) |->
                      TxOut(request.recipients[i].nAmount, request.recipients[i].dest)]
        changeDest == IF request.destChange = "none" THEN "chg2" ELSE request.destChange
        withChange == MkTx(vin, Append(payees, TxOut(0, changeDest)))
        fee == GetFee(request.m_feerate, GetVirtualTransactionSize(withChange))
        change == SumCoins(vin) - SumRecipients(request.recipients) - fee
    IN  IF env.builder = "fail" \/ change < 0
        THEN [ok |-> FALSE, error |-> "Insufficient funds"]
        ELSE IF change <= env.dustThreshold
        THEN [ok |-> TRUE, tx |-> MkTx(vin, payees), fee |-> fee + change]
        ELSE [ok |-> TRUE, tx |-> MkTx(vin, Append(payees, TxOut(change, changeDest))),
              fee |-> fee]

-----------------------------------------------------------------------------
(* CreateRateBumpTransaction, lines 351-489 *)

\* a lookup that only notices a missing coin at the first input
MissingCoinsFirstOnly(tx) == {i \in {1} : tx.vin[i].prevout \in spentCoins}

\* lines 371-388: the inputs whose coin the chain view does not find, in input order
MissingCoins(tx) == {i \in 1..Len(tx.vin) : tx.vin[i].prevout \in spentCoins}
Min(S) == CHOOSE x \in S : \A y \in S : x <= y

\* a selection that forces only the inputs the wallet owns
SelectedInputsMine(tx) ==
    {tx.vin[i].prevout : i \in {j \in 1..Len(tx.vin) : IsMine(tx.vin[j].prevout) # "no"}}

\* lines 381-385 and 466-468: the inputs selected in coin control
SelectedInputs(tx) ==
    {tx.vin[i].prevout : i \in 1..Len(tx.vin)}
ExternalInputs(tx) ==
    {tx.vin[i].prevout : i \in {j \in 1..Len(tx.vin) : IsMine(tx.vin[j].prevout) = "no"}}

\* an override for every input of the original, wallet-owned or not
InputWeightsAll(tx, env) ==
    [o \in {tx.vin[i].prevout : i \in 1..Len(tx.vin)} |->
        GetTransactionInputWeight(CHOOSE txin \in {tx.vin[i] : i \in 1..Len(tx.vin)} : txin.prevout = o)
        + env.weightDiffToMax]

\* lines 393-412: the weight override of each external input
InputWeights(tx, env) ==
    [o \in ExternalInputs(tx) |->
        GetTransactionInputWeight(CHOOSE txin \in {tx.vin[i] : i \in 1..Len(tx.vin)} : txin.prevout = o)
        + env.weightDiffToMax]

\* a payee list that takes every output of the original, change included
RecipientsAll(vout) ==
    [i \in 1..Len(vout) |->
        [dest |-> vout[i].dest, nAmount |-> vout[i].nValue, fSubtractFeeFromAmount |-> FALSE]]

\* lines 426-436: the payees, in output order, and the change destination
RECURSIVE Recipients(_)
Recipients(vout) ==
    IF vout = <<>> THEN <<>>
    ELSE IF ~IsChange(Head(vout))
         THEN <<[dest |-> Head(vout).dest, nAmount |-> Head(vout).nValue,
                 fSubtractFeeFromAmount |-> FALSE]>> \o Recipients(Tail(vout))
         ELSE Recipients(Tail(vout))
DestChange(tx) ==
    IF ChangeOutputs(tx) = {} THEN "none"
    ELSE tx.vout[CHOOSE i \in ChangeOutputs(tx) : \A j \in ChangeOutputs(tx) : j <= i].dest

\* lines 476-479: the builder's error string behind the engine's prefix
BuilderDiag(error) == Diag("Unable to create transaction." \o " " \o error)

\* a rate-bump that resets new_fee and the output transaction when the builder fails
RateBumpBuildClearingOnFailure(tx, cc, env, cur) ==
    LET old_fee == SumCoins(tx.vin) - GetValueOut(tx)
        maxTxSize == CalculateMaximumSignedTxSize(tx, env)
        check == IF cc.m_feerate # NoRate
                 THEN CheckFeeRate(tx, cc.m_feerate, maxTxSize, old_fee, <<>>, env)
                 ELSE Ret(OK, <<>>)
        request == [reached |-> TRUE,
                    recipients |-> Recipients(tx.vout),
                    destChange |-> DestChange(tx),
                    selected |-> SelectedInputs(tx),
                    external |-> ExternalInputs(tx),
                    inputWeights |-> InputWeights(tx, env),
                    m_feerate |-> IF cc.m_feerate # NoRate THEN cc.m_feerate
                                  ELSE EstimateFeeRate(tx, old_fee, env),
                    m_allow_other_inputs |-> TRUE,
                    m_min_depth |-> 1,
                    has_signal_rbf |-> cc.has_signal_rbf,
                    signal_rbf |-> cc.signal_rbf]
        res == CreateTransaction(request, env)
    IN  IF isParticlWallet
        THEN Built(ABORTED, <<>>, cur.old_fee, cur.new_fee, cur.mtx, NoRequest)
        ELSE IF check.result # OK
        THEN Built(check.result, check.errors, old_fee, cur.new_fee, cur.mtx, NoRequest)
        ELSE IF ~res.ok
        THEN Built(WALLET_ERROR, <<BuilderDiag(res.error)>>, old_fee, 0, NullTx, request)
        ELSE Built(OK, <<>>, old_fee, res.fee, res.tx, request)

\* a rate-bump that hands the caller's minimum depth on to the builder
RateBumpBuildKeepingDepth(tx, cc, env, cur) ==
    LET old_fee == SumCoins(tx.vin) - GetValueOut(tx)
        maxTxSize == CalculateMaximumSignedTxSize(tx, env)
        check == IF cc.m_feerate # NoRate
                 THEN CheckFeeRate(tx, cc.m_feerate, maxTxSize, old_fee, <<>>, env)
                 ELSE Ret(OK, <<>>)
        request == [reached |-> TRUE,
                    recipients |-> Recipients(tx.vout),
                    destChange |-> DestChange(tx),
                    selected |-> SelectedInputs(tx),
                    external |-> ExternalInputs(tx),
                    inputWeights |-> InputWeights(tx, env),
                    m_feerate |-> IF cc.m_feerate # NoRate THEN cc.m_feerate
                                  ELSE EstimateFeeRate(tx, old_fee, env),
                    m_allow_other_inputs |-> TRUE,
                    m_min_depth |-> cc.m_min_depth,
                    has_signal_rbf |-> cc.has_signal_rbf,
                    signal_rbf |-> cc.signal_rbf]
        res == CreateTransaction(request, env)
    IN  IF isParticlWallet
        THEN Built(ABORTED, <<>>, cur.old_fee, cur.new_fee, cur.mtx, NoRequest)
        ELSE IF check.result # OK
        THEN Built(check.result, check.errors, old_fee, cur.new_fee, cur.mtx, NoRequest)
        ELSE IF ~res.ok
        THEN Built(WALLET_ERROR, <<BuilderDiag(res.error)>>, old_fee, cur.new_fee, cur.mtx, request)
        ELSE Built(OK, <<>>, old_fee, res.fee, res.tx, request)

\* lines 419-488, once the coins were found and the record passed the checks
RateBumpBuild(tx, cc, env, cur) ==
    LET old_fee == SumCoins(tx.vin) - GetValueOut(tx)
        maxTxSize == CalculateMaximumSignedTxSize(tx, env)
        check == IF cc.m_feerate # NoRate
                 THEN CheckFeeRate(tx, cc.m_feerate, maxTxSize, old_fee, <<>>, env)
                 ELSE Ret(OK, <<>>)
        request == [reached |-> TRUE,
                    recipients |-> Recipients(tx.vout),
                    destChange |-> DestChange(tx),
                    selected |-> SelectedInputs(tx),
                    external |-> ExternalInputs(tx),
                    inputWeights |-> InputWeights(tx, env),
                    m_feerate |-> IF cc.m_feerate # NoRate THEN cc.m_feerate
                                  ELSE EstimateFeeRate(tx, old_fee, env),
                    m_allow_other_inputs |-> TRUE,
                    m_min_depth |-> 1,
                    has_signal_rbf |-> cc.has_signal_rbf,
                    signal_rbf |-> cc.signal_rbf]
        res == CreateTransaction(request, env)
    IN  IF isParticlWallet
        THEN Built(ABORTED, <<>>, cur.old_fee, cur.new_fee, cur.mtx, NoRequest)
        ELSE IF check.result # OK
        THEN Built(check.result, check.errors, old_fee, cur.new_fee, cur.mtx, NoRequest)
        ELSE IF ~res.ok
        THEN Built(WALLET_ERROR, <<BuilderDiag(res.error)>>, old_fee, cur.new_fee, cur.mtx, request)
        ELSE Built(OK, <<>>, old_fee, res.fee, res.tx, request)

CreateRateBumpTransaction(txid, cc, env, cur, require_mine) ==
    IF txid \notin DOMAIN mapWallet
    THEN Built(INVALID_ADDRESS_OR_KEY, <<Diag("Invalid or non-wallet transaction id")>>,
               cur.old_fee, cur.new_fee, cur.mtx, NoRequest)
    ELSE IF MissingCoins(txid) # {}
    THEN Built(MISC_ERROR,
               <<DiagAt("is already spent", txid.vin[Min(MissingCoins(txid))].prevout)>>,
               cur.old_fee, cur.new_fee, cur.mtx, NoRequest)
    ELSE LET pre == PreconditionChecks(txid, require_mine, <<>>)
         IN  IF pre.result # OK
             THEN Built(pre.result, pre.errors, cur.old_fee, cur.new_fee, cur.mtx, NoRequest)
             ELSE RateBumpBuild(txid, cc, env, cur)


-----------------------------------------------------------------------------
(* CommitTransaction, lines 496-528 *)

\* CWallet::CommitTransaction: the record store with the new record inserted
\* (unconfirmed, carrying the given metadata); the transaction is broadcast
WalletCommitTransaction(mw, tx, mapValue) ==
    (tx :> [depth |-> 0, mapValue |-> mapValue]) @@ mw

\* CWallet::MarkReplaced: stamps the original record; `stamped` is whether the
\* stamp could be written
MarkReplaced(mw, originalHash, newHash, stamped) ==
    IF stamped
    THEN [mw EXCEPT ![originalHash].mapValue = ("replaced_by_txid" :> newHash) @@ @]
    ELSE mw

\* a commit's outcome: the Result, errors and bumped_txid after the call, the
\* record store after the call and whether the transaction was broadcast
Committed(result, errors, bumped_txid, mw, sent) ==
    [result |-> result, errors |-> errors, bumped_txid |-> bumped_txid,
     mapWallet |-> mw, sent |-> sent]

\* a commit that treats a failed stamp as fatal and takes the new record back
CommitTransactionRollingBack(txid, mtx, errors, bumped_txid, stamped) ==
    IF errors # <<>>
    THEN Committed(MISC_ERROR, errors, bumped_txid, mapWallet, FALSE)
    ELSE IF IsNull(txid) \/ txid \notin DOMAIN mapWallet
    THEN Committed(MISC_ERROR, Append(errors, Diag("Invalid or non-wallet transaction id")),
                   bumped_txid, mapWallet, FALSE)
    ELSE LET pre == PreconditionChecks(txid, FALSE, errors)
             mapValue == ("replaces_txid" :> txid) @@ mapWallet[txid].mapValue
             inserted == WalletCommitTransaction(mapWallet, mtx, mapValue)
         IN  IF pre.result # OK
             THEN Committed(pre.result, pre.errors, bumped_txid, mapWallet, FALSE)
             ELSE IF stamped
             THEN Committed(OK, errors, mtx, MarkReplaced(inserted, txid, mtx, stamped), TRUE)
             ELSE Committed(MISC_ERROR,
                    Append(errors, Diag("Created new bumpfee transaction but could not mark the original transaction as replaced")),
                    bumped_txid, mapWallet, TRUE)

\* a commit that trusts the build and does not run PreconditionChecks again
CommitTransactionNoRecheck(txid, mtx, errors, bumped_txid, stamped) ==
    IF errors # <<>>
    THEN Committed(MISC_ERROR, errors, bumped_txid, mapWallet, FALSE)
    ELSE IF IsNull(txid) \/ txid \notin DOMAIN mapWallet
    THEN Committed(MISC_ERROR, Append(errors, Diag("Invalid or non-wallet transaction id")),
                   bumped_txid, mapWallet, FALSE)
    ELSE LET mapValue == ("replaces_txid" :> txid) @@ mapWallet[txid].mapValue
             inserted == WalletCommitTransaction(mapWallet, mtx, mapValue)
         IN  Committed(OK,
                IF stamped THEN errors
                ELSE Append(errors, Diag("Created new bumpfee transaction but could not mark the original transaction as replaced")),
                mtx, MarkReplaced(inserted, txid, mtx, stamped), TRUE)

\* a commit that does not refuse a caller whose build left diagnostics
CommitTransactionUnguarded(txid, mtx, errors, bumped_txid, stamped) ==
    IF IsNull(txid) \/ txid \notin DOMAIN mapWallet
    THEN Committed(MISC_ERROR, Append(errors, Diag("Invalid or non-wallet transaction id")),
                   bumped_txid, mapWallet, FALSE)
    ELSE LET pre == PreconditionChecks(txid, FALSE, errors)
             mapValue == ("replaces_txid" :> txid) @@ mapWallet[txid].mapValue
             inserted == WalletCommitTransaction(mapWallet, mtx, mapValue)
         IN  IF pre.result # OK
             THEN Committed(pre.result, pre.errors, bumped_txid, mapWallet, FALSE)
             ELSE Committed(OK,
                    IF stamped THEN errors
                    ELSE Append(errors, Diag("Created new bumpfee transaction but could not mark the original transaction as replaced")),
                    mtx, MarkReplaced(inserted, txid, mtx, stamped), TRUE)

CommitTransaction(txid, mtx, errors, bumped_txid, stamped) ==
    IF errors # <<>>
    THEN Committed(MISC_ERROR, errors, bumped_txid, mapWallet, FALSE)
    ELSE IF IsNull(txid) \/ txid \notin DOMAIN mapWallet
    THEN Committed(MISC_ERROR, Append(errors, Diag("Invalid or non-wallet transaction id")),
                   bumped_txid, mapWallet, FALSE)
    ELSE LET pre == PreconditionChecks(txid, FALSE, errors)
             mapValue == ("replaces_txid" :> txid) @@ mapWallet[txid].mapValue
             inserted == WalletCommitTransaction(mapWallet, mtx, mapValue)
         IN  IF pre.result # OK
             THEN Committed(pre.result, pre.errors, bumped_txid, mapWallet, FALSE)
             ELSE Committed(OK,
                    IF stamped THEN errors
                    ELSE Append(errors, Diag("Created new bumpfee transaction but could not mark the original transaction as replaced")),
                    mtx, MarkReplaced(inserted, txid, mtx, stamped), TRUE)

-----------------------------------------------------------------------------
(* The state machine *)

\* the wallet kinds: (fParticlMode, the wallet is a CHDWallet, watch-only legacy wallet)
WalletKinds ==
    {<<TRUE, TRUE, FALSE>>, <<FALSE, FALSE, FALSE>>, <<FALSE, FALSE, TRUE>>,
     <<TRUE, FALSE, FALSE>>}

\* what `last` holds when the last step was not a build
NoBuild == [result |-> "none", errors |-> <<>>, request |-> NoRequest]

\* what a build was asked with: the caller's coin control, require_mine and the
\* answers the chain and the wallet gave during the call
Asked(cc, env, require_mine) == [cc |-> cc, env |-> env, require_mine |-> require_mine]
NotAsked == [cc |-> "none"]

Observed(op, who, txid, result, errors, request, stamped, asked) ==
    [op |-> op, who |-> who, txid |-> txid, result |-> result, errors |-> errors,
     request |-> request, stamped |-> stamped, asked |-> asked]

\* the replacement an already bumped original was replaced by
TxReplacement(orig) == [orig EXCEPT !.vout = <<TxOut(1, "pay1")>>]

\* the condition a wallet's transaction is in when the engine is first called:
\* its depth, whether it has descendants, which of its coins the chain view
\* has lost ("none", "first", "last" input) and whether it was bumped before
Condition(depth, walletSpend, mempoolSpend, spent, bumped) ==
    [depth |-> depth, walletSpend |-> walletSpend, mempoolSpend |-> mempoolSpend,
     spent |-> spent, bumped |-> bumped]
Unspoilt == Condition(0, FALSE, FALSE, "none", FALSE)
AllConditions ==
    [depth : {0, 1, -1}, walletSpend : BOOLEAN, mempoolSpend : BOOLEAN,
     spent : {"none", "first", "last"}, bumped : BOOLEAN]
\* SpecBuild: each condition alone, and two pairs
BuildConditions ==
    {Unspoilt,
     Condition(1, FALSE, FALSE, "none", FALSE), Condition(-1, FALSE, FALSE, "none", FALSE),
     Condition(0, TRUE, FALSE, "none", FALSE), Condition(0, FALSE, TRUE, "none", FALSE),
     Condition(0, FALSE, FALSE, "first", FALSE), Condition(0, FALSE, FALSE, "last", FALSE),
     Condition(0, FALSE, FALSE, "none", TRUE),
     Condition(1, FALSE, FALSE, "last", FALSE), Condition(-1, TRUE, FALSE, "none", FALSE)}

\* the record store of a wallet holding orig in condition cond
Holding(orig, cond) ==
    IF cond.bumped
    THEN (orig :> [depth |-> cond.depth,
                   mapValue |-> ("comment" :> "rent") @@ ("replaced_by_txid" :> TxReplacement(orig))])
         @@ (TxReplacement(orig) :> [depth |-> 0,
                   mapValue |-> ("comment" :> "rent") @@ ("replaces_txid" :> orig)])
    ELSE (orig :> [depth |-> cond.depth, mapValue |-> ("comment" :> "rent")])

\* a wallet of one of the kinds, holding one of the originals in one of the
\* conditions; nothing built yet
Fresh(kinds, originals, conditions) ==
    /\ \E k \in kinds :
          /\ fParticlMode = k[1]
          /\ isParticlWallet = k[2]
          /\ watchOnlyWallet = k[3]
    /\ \E orig \in originals, cond \in conditions :
          /\ mapWallet = Holding(orig, cond)
          /\ mapRecords = IF isParticlWallet THEN (TxRecord :> [depth |-> cond.depth]) ELSE <<>>
          /\ walletSpends = IF cond.walletSpend THEN {orig, TxRecord} ELSE {}
          /\ mempoolDesc = IF cond.mempoolSpend THEN {orig, TxRecord} ELSE {}
          /\ spentCoins = CASE cond.spent = "first" -> {orig.vin[1].prevout}
                             [] cond.spent = "last" -> {orig.vin[Len(orig.vin)].prevout}
                             [] OTHER -> {}
    /\ broadcast = <<>>
    /\ cs_wallet = NoHolder
    /\ pc = [c \in Callers |-> Idle]
    /\ caller = [c \in Callers |-> FreshCaller]
    /\ last = Observed("init", "none", NullTx, "none", <<>>, NoRequest, TRUE, NotAsked)

\* Spec starts from a wallet whose transaction can be bumped
Init ==
    /\ Fresh({<<TRUE, TRUE, FALSE>>, <<FALSE, FALSE, FALSE>>}, {TxPlain}, {Unspoilt})
    /\ envLeft = MaxEnv
    /\ callsLeft = MaxCalls

\* the process is alive: no call has hit a failing assert
Alive == last.result # ABORTED

\* the ids a caller may pass to an entry point
TxidArgs == DOMAIN mapWallet \cup DOMAIN mapRecords \cup {TxUnknown, NullTx}

\* a caller's variables after a build
AfterBuild(cur, txid, b) ==
    [cur EXCEPT !.errors = b.errors, !.old_fee = b.old_fee, !.new_fee = b.new_fee,
                !.mtx = b.mtx, !.txid = txid]

\* caller c calls CreateTotalBumpTransaction(wallet, txid, coin_control, errors, old_fee, new_fee, mtx)
\* a build that already marks the original record as replaced
TotalBumpStamping(c, txid, cc, env) ==
    LET b == CreateTotalBumpTransaction(txid, cc, env, caller[c])
    IN  /\ Alive /\ callsLeft > 0
        /\ caller' = [caller EXCEPT ![c] = AfterBuild(@, txid, b)]
        /\ last' = Observed("total_bump", c, txid, b.result, b.errors, b.request, TRUE,
                            Asked(cc, env, TRUE))
        /\ callsLeft' = callsLeft - 1
        /\ mapWallet' = IF b.result = OK /\ txid \in DOMAIN mapWallet
                        THEN MarkReplaced(mapWallet, txid, b.mtx, TRUE)
                        ELSE mapWallet
        /\ UNCHANGED <<kindVars, lockVars, mapRecords, chainVars, broadcast, envLeft>>

TotalBump(c, txid, cc, env) ==
    LET b == CreateTotalBumpTransaction(txid, cc, env, caller[c])
    IN  /\ Alive /\ callsLeft > 0
        /\ caller' = [caller EXCEPT ![c] = AfterBuild(@, txid, b)]
        /\ last' = Observed("total_bump", c, txid, b.result, b.errors, b.request, TRUE,
                            Asked(cc, env, TRUE))
        /\ callsLeft' = callsLeft - 1
        /\ UNCHANGED <<kindVars, lockVars, walletVars, chainVars, broadcast, envLeft>>

\* caller c calls CreateRateBumpTransaction(wallet, txid, coin_control, errors, old_fee, new_fee, mtx, require_mine)
RateBump(c, txid, cc, env, require_mine) ==
    LET b == CreateRateBumpTransaction(txid, cc, env, caller[c], require_mine)
    IN  /\ Alive /\ callsLeft > 0
        /\ caller' = [caller EXCEPT ![c] = AfterBuild(@, txid, b)]
        /\ last' = Observed("rate_bump", c, txid, b.result, b.errors, b.request, TRUE,
                            Asked(cc, env, require_mine))
        /\ callsLeft' = callsLeft - 1
        /\ UNCHANGED <<kindVars, lockVars, walletVars, chainVars, broadcast, envLeft>>

\* caller c calls CommitTransaction(wallet, txid, mtx, errors, bumped_txid) with
\* the variables its last build left
Commit(c, txid, stamped) ==
    LET cur == caller[c]
        r == CommitTransaction(txid, cur.mtx, cur.errors, cur.bumped_txid, stamped)
    IN  /\ Alive /\ callsLeft > 0
        /\ mapWallet' = r.mapWallet
        /\ broadcast' = IF r.sent THEN Append(broadcast, <<txid, cur.mtx>>) ELSE broadcast
        /\ caller' = [caller EXCEPT ![c].errors = r.errors, ![c].bumped_txid = r.bumped_txid]
        /\ last' = Observed("commit", c, txid, r.result, r.errors, NoRequest, stamped, NotAsked)
        /\ callsLeft' = callsLeft - 1
        /\ UNCHANGED <<kindVars, lockVars, mapRecords, chainVars, envLeft>>

\* caller c calls TransactionCanBeBumped(wallet, txid)
CanBeBumped(c, txid) ==
    /\ Alive /\ callsLeft > 0
    /\ last' = Observed("can_be_bumped", c, txid,
                        IF TransactionCanBeBumped(txid) THEN "true" ELSE "false",
                        <<>>, NoRequest, TRUE, NotAsked)
    /\ callsLeft' = callsLeft - 1
    /\ UNCHANGED <<kindVars, lockVars, walletVars, chainVars, broadcast, caller, envLeft>>

\* the environment: a block confirms the transaction (depth 1) or a conflicting
\* one (depth -1)
SetDepth(txid, depth) ==
    /\ Alive /\ envLeft > 0
    /\ \/ /\ txid \in DOMAIN mapWallet
          /\ mapWallet[txid].depth = 0
          /\ mapWallet' = [mapWallet EXCEPT ![txid].depth = depth]
          /\ UNCHANGED mapRecords
       \/ /\ txid \in DOMAIN mapRecords
          /\ mapRecords[txid].depth = 0
          /\ mapRecords' = [mapRecords EXCEPT ![txid].depth = depth]
          /\ UNCHANGED mapWallet
    /\ last' = Observed("env", "none", NullTx, "none", <<>>, NoRequest, TRUE, NotAsked)
    /\ envLeft' = envLeft - 1
    /\ UNCHANGED <<kindVars, lockVars, chainVars, broadcast, caller, callsLeft>>

\* the environment: a wallet transaction spending an output of txid appears
WalletDescendant(txid) ==
    /\ Alive /\ envLeft > 0
    /\ txid \notin walletSpends
    /\ walletSpends' = walletSpends \cup {txid}
    /\ last' = Observed("env", "none", NullTx, "none", <<>>, NoRequest, TRUE, NotAsked)
    /\ envLeft' = envLeft - 1
    /\ UNCHANGED <<kindVars, lockVars, walletVars, mempoolDesc, spentCoins, broadcast, caller, callsLeft>>

\* the environment: a mempool transaction spending an output of txid appears
MempoolDescendant(txid) ==
    /\ Alive /\ envLeft > 0
    /\ txid \notin mempoolDesc
    /\ mempoolDesc' = mempoolDesc \cup {txid}
    /\ last' = Observed("env", "none", NullTx, "none", <<>>, NoRequest, TRUE, NotAsked)
    /\ envLeft' = envLeft - 1
    /\ UNCHANGED <<kindVars, lockVars, walletVars, walletSpends, spentCoins, broadcast, caller, callsLeft>>

\* the environment: a previous output is spent in the chain, the chain view no
\* longer finds it
SpendCoin(prevout) ==
    /\ Alive /\ envLeft > 0
    /\ prevout \notin spentCoins
    /\ \E txid \in DOMAIN mapWallet : prevout \in SelectedInputs(txid)
    /\ spentCoins' = spentCoins \cup {prevout}
    /\ last' = Observed("env", "none", NullTx, "none", <<>>, NoRequest, TRUE, NotAsked)
    /\ envLeft' = envLeft - 1
    /\ UNCHANGED <<kindVars, lockVars, walletVars, walletSpends, mempoolDesc, broadcast, caller, callsLeft>>

KnownTxids == DOMAIN mapWallet \cup DOMAIN mapRecords

\* the environment's steps on the transactions txids
EnvironmentOf(txids) ==
    \/ \E txid \in txids, depth \in {1, -1} : SetDepth(txid, depth)
    \/ \E txid \in txids : WalletDescendant(txid)
    \/ \E txid \in txids : MempoolDescendant(txid)
    \/ \E prevout \in Outpoints : SpendCoin(prevout)

Environment == EnvironmentOf(KnownTxids)

\* Spec: the life of a wallet's transactions under builds, commits and the
\* environment. The callers are interchangeable, so c1 is the one that calls
\* first; the environment moves once a replacement is being worked on, and on
\* the transactions being worked on (builds on a wallet already changed are
\* SpecBuild's).
Started(c) == ~IsNull(caller[c].txid)
MayCall(c) == c = "c1" \/ Started("c1")
WorkedOn == {caller[c].txid : c \in Callers} \ {NullTx}

Next ==
    \/ \E c \in Callers, txid \in DOMAIN mapWallet, cc \in LifeControls, env \in LifeEnvs :
          MayCall(c) /\ TotalBump(c, txid, cc, env)
    \/ \E c \in Callers, txid \in DOMAIN mapWallet, cc \in LifeControls, env \in LifeEnvs :
          MayCall(c) /\ RateBump(c, txid, cc, env, TRUE)
    \/ \E c \in Callers, stamped \in BOOLEAN :
          Started(c) /\ Commit(c, caller[c].txid, stamped)
    \/ EnvironmentOf(WorkedOn)

Spec == Init /\ [][Next]_vars

\* SpecBuild: one build by one caller, with every request and environment; then
\* commits.  For an id the wallet does not hold, a build reads neither the request
\* nor the environment.
InitBuild ==
    /\ Fresh(WalletKinds, OriginalTxs, BuildConditions)
    /\ envLeft = 0
    /\ callsLeft = MaxCommitsBuild + 1

NothingBuilt == callsLeft = MaxCommitsBuild + 1
BaseControl == CoinControl(NoRate, 0, TRUE)

NextBuild ==
    \/ /\ NothingBuilt
       /\ \/ \E txid \in DOMAIN mapWallet, cc \in CoinControls, env \in ChainEnvs :
                TotalBump("c1", txid, cc, env)
          \/ \E txid \in TxidArgs \ DOMAIN mapWallet :
                TotalBump("c1", txid, BaseControl, BaseEnv)
    \/ /\ NothingBuilt
       /\ \/ \E txid \in DOMAIN mapWallet, cc \in CoinControls, env \in ChainEnvs,
                require_mine \in BOOLEAN :
                RateBump("c1", txid, cc, env, require_mine)
          \/ \E txid \in TxidArgs \ DOMAIN mapWallet :
                RateBump("c1", txid, BaseControl, BaseEnv, TRUE)
    \/ /\ ~NothingBuilt
       /\ \E stamped \in BOOLEAN :
             \E txid \in {caller["c1"].txid, NullTx} : Commit("c1", txid, stamped)

SpecBuild == InitBuild /\ [][NextBuild]_vars

\* SpecCheck: can_be_bumped asked of a wallet in any condition
InitCheck ==
    /\ Fresh(WalletKinds, OriginalTxs, AllConditions)
    /\ envLeft = MaxEnvCheck
    /\ callsLeft = 1

NextCheck ==
    \/ \E c \in Callers, txid \in TxidArgs : CanBeBumped(c, txid)
    \/ Environment

SpecCheck == InitCheck /\ [][NextCheck]_vars

\* SpecPre: one build with the default request, of a held transaction in any
\* condition or of an id the wallet does not know, then a commit of what it built
\* under the id that was built from or under the unknown id
InitPre ==
    /\ Fresh(WalletKinds, OriginalTxs, AllConditions)
    /\ envLeft = 0
    /\ callsLeft = 2

NextPre ==
    \/ /\ callsLeft = 2
       /\ \E txid \in DOMAIN mapWallet \cup {TxUnknown} :
             TotalBump("c1", txid, BaseControl, BaseEnv)
    \/ /\ callsLeft = 2
       /\ \E txid \in DOMAIN mapWallet \cup {TxUnknown}, require_mine \in BOOLEAN :
             RateBump("c1", txid, BaseControl, BaseEnv, require_mine)
    \/ /\ callsLeft = 1
       /\ \E txid \in {caller["c1"].txid, TxUnknown} : Commit("c1", txid, TRUE)

SpecPre == InitPre /\ [][NextPre]_vars

-----------------------------------------------------------------------------
(* The operations step by step: the statements before LOCK(cs_wallet), the *)
(* LOCK, and the rest of the body up to the return, which releases it      *)

LockOps == {"can_be_bumped", "total_bump", "rate_bump", "commit"}

\* number of calls begun in a behaviour of SpecLock
MaxCallsLock == 3

\* a caller that would take the mutex whether or not it is free
LockAcquireBarging(c) ==
    /\ pc[c].at = "waiting"
    /\ cs_wallet' = c
    /\ pc' = [pc EXCEPT ![c].at = "locked"]
    /\ UNCHANGED <<kindVars, walletVars, chainVars, broadcast, caller, last, envLeft, callsLeft>>

\* caller c enters an operation and runs the statements before its LOCK:
\* CreateTotalBumpTransaction resets new_fee and errors and returns WALLET_ERROR
\* for a wallet that is not a Particl wallet (lines 228-233);
\* CreateRateBumpTransaction copies the coin control (line 355); the other two
\* start with the LOCK (lines 192, 498)
LockCall(c, op, txid, env) ==
    /\ Alive /\ callsLeft > 0
    /\ pc[c] = Idle
    /\ callsLeft' = callsLeft - 1
    /\ IF op = "total_bump" /\ ~isParticlWallet
       THEN LET b == CreateTotalBumpTransaction(txid, BaseControl, env, caller[c])
            IN  /\ caller' = [caller EXCEPT ![c] = AfterBuild(@, txid, b)]
                /\ last' = Observed("total_bump", c, txid, b.result, b.errors, b.request,
                                    TRUE, Asked(BaseControl, env, TRUE))
                /\ pc' = pc
       ELSE /\ caller' = IF op = "total_bump"
                         THEN [caller EXCEPT ![c].new_fee = 0, ![c].errors = <<>>]
                         ELSE caller
            /\ pc' = [pc EXCEPT ![c] = InCall("waiting", op, txid, env)]
            /\ last' = last
    /\ UNCHANGED <<kindVars, walletVars, chainVars, broadcast, envLeft, cs_wallet>>

\* LOCK(wallet.cs_wallet), lines 192, 235, 357, 498: blocks until the mutex is free
LockAcquire(c) ==
    /\ pc[c].at = "waiting"
    /\ cs_wallet = NoHolder
    /\ cs_wallet' = c
    /\ pc' = [pc EXCEPT ![c].at = "locked"]
    /\ UNCHANGED <<kindVars, walletVars, chainVars, broadcast, caller, last, envLeft, callsLeft>>

\* the body after the LOCK, up to the return that releases the mutex
LockedRun(c) ==
    LET p == pc[c]
        cur == caller[c]
    IN  /\ p.at = "locked"
        /\ cs_wallet' = NoHolder
        /\ pc' = [pc EXCEPT ![c] = Idle]
        /\ \/ /\ p.op = "can_be_bumped"
              /\ last' = Observed("can_be_bumped", c, p.txid,
                                  IF TransactionCanBeBumped(p.txid) THEN "true" ELSE "false",
                                  <<>>, NoRequest, TRUE, NotAsked)
              /\ UNCHANGED <<walletVars, broadcast, caller>>
           \/ /\ p.op = "total_bump"
              /\ LET b == CreateTotalBumpTransaction(p.txid, BaseControl, p.env, cur)
                 IN  /\ caller' = [caller EXCEPT ![c] = AfterBuild(@, p.txid, b)]
                     /\ last' = Observed("total_bump", c, p.txid, b.result, b.errors,
                                         b.request, TRUE, Asked(BaseControl, p.env, TRUE))
              /\ UNCHANGED <<walletVars, broadcast>>
           \/ /\ p.op = "rate_bump"
              /\ LET b == CreateRateBumpTransaction(p.txid, BaseControl, p.env, cur, TRUE)
                 IN  /\ caller' = [caller EXCEPT ![c] = AfterBuild(@, p.txid, b)]
                     /\ last' = Observed("rate_bump", c, p.txid, b.result, b.errors,
                                         b.request, TRUE, Asked(BaseControl, p.env, TRUE))
              /\ UNCHANGED <<walletVars, broadcast>>
           \/ /\ p.op = "commit"
              /\ LET r == CommitTransaction(p.txid, cur.mtx, cur.errors, cur.bumped_txid, TRUE)
                 IN  /\ mapWallet' = r.mapWallet
                     /\ broadcast' = IF r.sent THEN Append(broadcast, <<p.txid, cur.mtx>>)
                                     ELSE broadcast
                     /\ caller' = [caller EXCEPT ![c].errors = r.errors,
                                                 ![c].bumped_txid = r.bumped_txid]
                     /\ last' = Observed("commit", c, p.txid, r.result, r.errors, NoRequest,
                                         TRUE, NotAsked)
              /\ UNCHANGED mapRecords
        /\ UNCHANGED <<kindVars, chainVars, envLeft, callsLeft>>

\* another wallet operation (a block connected, a spending transaction added)
\* runs under the mutex; the mempool and the chain view change without it
LockEnvironment ==
    \/ /\ cs_wallet = NoHolder
       /\ \/ \E txid \in WorkedOn, depth \in {1, -1} : SetDepth(txid, depth)
          \/ \E txid \in WorkedOn : WalletDescendant(txid)
    \/ \E txid \in WorkedOn : MempoolDescendant(txid)

InitLock ==
    /\ Fresh({<<TRUE, TRUE, FALSE>>, <<FALSE, FALSE, FALSE>>}, {TxPlain}, {Unspoilt})
    /\ envLeft = MaxEnv
    /\ callsLeft = MaxCallsLock

NextLock ==
    \/ \E c \in Callers, op \in LockOps \ {"commit"}, txid \in DOMAIN mapWallet :
          MayCall(c) /\ LockCall(c, op, txid, BaseEnv)
    \/ \E c \in Callers : Started(c) /\ LockCall(c, "commit", caller[c].txid, BaseEnv)
    \/ \E c \in Callers : LockAcquire(c)
    \/ \E c \in Callers : LockedRun(c)
    \/ LockEnvironment

SpecLock == InitLock /\ [][NextLock]_vars

\* SpecRebuild: a caller builds twice with the same by-reference arguments: a
\* first build with the unremarkable environment, then a rate-bump with an
\* environment that differs from it in at most one answer
RebuildEnvs == {env \in ChainEnvs : Deviations(env) <= 1}

InitRebuild ==
    /\ Fresh(WalletKinds, OriginalTxs, {Unspoilt})
    /\ envLeft = 0
    /\ callsLeft = 2

NextRebuild ==
    \/ /\ callsLeft = 2
       /\ \E txid \in DOMAIN mapWallet : TotalBump("c1", txid, BaseControl, BaseEnv)
    \/ /\ callsLeft = 2
       /\ \E txid \in DOMAIN mapWallet, cc \in CoinControls :
             RateBump("c1", txid, cc, BaseEnv, FALSE)
    \/ /\ callsLeft = 1
       /\ \E txid \in DOMAIN mapWallet, cc \in CoinControls, env \in RebuildEnvs :
             RateBump("c1", txid, cc, env, FALSE)

SpecRebuild == InitRebuild /\ [][NextRebuild]_vars

-----------------------------------------------------------------------------
(* Properties *)

BuildOps == {"total_bump", "rate_bump"}
EngineOps == BuildOps \cup {"commit"}

\* the step just taken was a call of the engine (not the environment, not stuttering)
CallStep == callsLeft' # callsLeft

\* the record's metadata carries the key
Has(txid, key) == key \in DOMAIN mapWallet[txid].mapValue

\* C1 (as claimed): at most one commit for a given original transaction id ever
\* broadcasts: no two entries of the broadcast history, each a built replacement
\* and the two different, name the same original.
C1_BumpedAtMostOnce ==
    \A i, j \in 1..Len(broadcast) :
        (/\ broadcast[i][1] = broadcast[j][1]
         /\ ~IsNull(broadcast[i][2]) /\ ~IsNull(broadcast[j][2])
         /\ broadcast[i][2] # broadcast[j][2]) => i = j

\* C2: a commit whose re-run of PreconditionChecks (require_mine = false) on the
\* original record fails returns the checker's Result, broadcasts nothing, leaves
\* the record store as it was (no record inserted, none stamped) and does not
\* write bumped_txid.
C2_FailedRecheckAbortsCommit ==
    [][ (CallStep /\ last'.op = "commit"
         /\ caller[last'.who].errors = <<>>
         /\ ~IsNull(last'.txid) /\ last'.txid \in DOMAIN mapWallet
         /\ PreconditionChecks(last'.txid, FALSE, <<>>).result # OK)
        => /\ last'.result = PreconditionChecks(last'.txid, FALSE, <<>>).result
           /\ last'.errors = PreconditionChecks(last'.txid, FALSE, <<>>).errors
           /\ broadcast' = broadcast
           /\ mapWallet' = mapWallet
           /\ caller'[last'.who].bumped_txid = caller[last'.who].bumped_txid ]_vars

\* C2 witness: a caller built a replacement, the record then got a descendant or
\* was mined, and the caller's commit was refused with the checker's Result
C2_Witness ==
    /\ last.op = "commit"
    /\ last.result \in {INVALID_PARAMETER, WALLET_ERROR}
    /\ caller[last.who].mtx # NullTx
    /\ caller[last.who].new_fee > caller[last.who].old_fee
    /\ caller[last.who].mtx \notin DOMAIN mapWallet
    /\ (last.txid \in walletSpends \cup mempoolDesc \/ mapWallet[last.txid].depth # 0)
    /\ broadcast = <<>>

\* C3 (as claimed): after a successful commit the new record carries
\* replaces_txid = original and the original's metadata, the original carries
\* replaced_by_txid = new; and in every state a record N with replaces_txid = O
\* exists only if O carries replaced_by_txid = N.
C3_LinkageBidirectional ==
    /\ (last.op = "commit" /\ last.result = OK /\ ~IsNull(caller[last.who].mtx))
          => /\ caller[last.who].mtx \in DOMAIN mapWallet
             /\ Has(caller[last.who].mtx, "replaces_txid")
             /\ mapWallet[caller[last.who].mtx].mapValue["replaces_txid"] = last.txid
             /\ Has(caller[last.who].mtx, "comment")
             /\ Has(last.txid, "replaced_by_txid")
             /\ mapWallet[last.txid].mapValue["replaced_by_txid"] = caller[last.who].mtx
    /\ \A n \in DOMAIN mapWallet \ {NullTx} :
          Has(n, "replaces_txid")
          => LET o == mapWallet[n].mapValue["replaces_txid"]
             IN  /\ o \in DOMAIN mapWallet
                 /\ Has(o, "replaced_by_txid")
                 /\ mapWallet[o].mapValue["replaced_by_txid"] = n

\* C4: a commit that passes its checks but cannot stamp the original still
\* returns OK with bumped_txid = the new transaction's id, appends exactly one
\* diagnostic, has broadcast the replacement and keeps its record.
C4_StampFailureIsNotFatal ==
    [][ (CallStep /\ last'.op = "commit" /\ ~last'.stamped
         /\ caller[last'.who].errors = <<>>
         /\ ~IsNull(last'.txid) /\ last'.txid \in DOMAIN mapWallet
         /\ PreconditionChecks(last'.txid, FALSE, <<>>).result = OK)
        => /\ last'.result = OK
           /\ caller'[last'.who].bumped_txid = caller[last'.who].mtx
           /\ Len(caller'[last'.who].errors) = Len(caller[last'.who].errors) + 1
           /\ broadcast' = Append(broadcast, <<last'.txid, caller[last'.who].mtx>>)
           /\ caller[last'.who].mtx \in DOMAIN mapWallet'
           /\ mapWallet'[caller[last'.who].mtx].mapValue["replaces_txid"] = last'.txid ]_vars

\* C4 witness: a commit returned OK although the original could not be stamped
C4_Witness ==
    /\ last.op = "commit" /\ last.result = OK /\ ~last.stamped
    /\ caller[last.who].mtx # NullTx
    /\ ~Has(last.txid, "replaced_by_txid")
    /\ Len(broadcast) = 1

StampFailure ==
    Diag("Created new bumpfee transaction but could not mark the original transaction as replaced")

\* C5 (as claimed): an engine operation that returns OK returns an empty
\* diagnostic list.
C5_OkHasNoDiagnostics ==
    (last.op \in EngineOps /\ last.result = OK) => last.errors = <<>>

\* C5 (amended): a build that returns OK returns an empty diagnostic list; a
\* commit that returns OK returns an empty list when the original was stamped and
\* exactly the stamp-failure diagnostic when it was not.
C5_OkHasNoDiagnosticsButStampFailure ==
    /\ (last.op \in BuildOps /\ last.result = OK) => last.errors = <<>>
    /\ (last.op = "commit" /\ last.result = OK)
          => last.errors = IF last.stamped THEN <<>> ELSE <<StampFailure>>

\* C5 witness: a replacement was built and committed, the original stamped
C5_Witness ==
    /\ last.op = "commit" /\ last.result = OK /\ last.stamped
    /\ ~IsNull(caller[last.who].mtx)
    /\ caller[last.who].new_fee > caller[last.who].old_fee
    /\ caller[last.who].bumped_txid = caller[last.who].mtx

\* C6 (as claimed): an engine operation that returns a Result other than OK
\* returns at least one diagnostic.
C6_FailureHasDiagnostic ==
    (last.op \in EngineOps
     /\ last.result \in {INVALID_ADDRESS_OR_KEY, INVALID_PARAMETER, WALLET_ERROR, MISC_ERROR})
    => last.errors # <<>>

\* C7: a build, whether it returns OK or not, leaves mapWallet and mapRecords
\* (the records and their metadata) as they were; of the engine's operations only
\* commit changes them.
C7_BuildLeavesWalletAlone ==
    [][ (CallStep /\ last'.op # "commit") => UNCHANGED walletVars ]_vars

\* C7 witness: a build returned OK and its replacement is not in the store
C7_Witness ==
    /\ last.op \in BuildOps /\ last.result = OK
    /\ ~IsNull(caller[last.who].mtx)
    /\ caller[last.who].mtx \notin DOMAIN mapWallet
    /\ \A t \in DOMAIN mapWallet : ~Has(t, "replaced_by_txid")

\* C8 (as claimed): a build on an original directly after a successful commit
\* of a replacement built for it fails with WALLET_ERROR.
C8_SecondBuildRefused ==
    [][ (CallStep /\ last.op = "commit" /\ last.result = OK
         /\ ~IsNull(caller[last.who].mtx)
         /\ last'.op \in BuildOps /\ last'.txid = last.txid)
        => last'.result = WALLET_ERROR ]_vars

\* what the claims require of a transaction id, read from the record it names
Known(txid) == txid \in DOMAIN mapWallet \cup DOMAIN mapRecords
DepthOf(txid) ==
    IF txid \in DOMAIN mapWallet THEN GetTxDepthInMainChain(txid) ELSE GetDepthInMainChain(txid)
AlreadyBumped(txid) == txid \in DOMAIN mapWallet /\ Has(txid, "replaced_by_txid")
Bumpable(txid) ==
    /\ DepthOf(txid) = 0
    /\ SignalsOptInRBF(txid)
    /\ ~AlreadyBumped(txid)
    /\ ~HasWalletSpend(txid)
    /\ ~hasDescendantsInMempool(txid)

\* C9 (as claimed): can_be_bumped returns true for every wallet transaction that
\* is at depth 0, signals replaceability, has no replaced_by_txid entry and no
\* wallet or mempool descendant.
C9_BumpableIsTrue ==
    (last.op = "can_be_bumped" /\ last.txid \in DOMAIN mapWallet /\ Bumpable(last.txid))
    => last.result = "true"

\* C9 (amended): can_be_bumped returns true for every mapWallet transaction that
\* is at depth 0, signals replaceability, has no replaced_by_txid entry and no
\* wallet or mempool descendant, whose inputs are all the wallet's under its
\* ownership filter, in a wallet that is a Particl wallet whenever Particl mode
\* is on.
C9_BumpableAndMineIsTrue ==
    (/\ last.op = "can_be_bumped" /\ last.txid \in DOMAIN mapWallet /\ Bumpable(last.txid)
     /\ AllInputsMine(last.txid, IF watchOnlyWallet THEN "watch_only" ELSE "spendable")
     /\ (fParticlMode => isParticlWallet))
    => last.result = "true"

\* C9 witness: a watch-only wallet was told its watch-only transaction can be bumped
C9_Witness ==
    /\ last.op = "can_be_bumped" /\ last.result = "true"
    /\ last.txid \in DOMAIN mapWallet /\ Bumpable(last.txid)
    /\ watchOnlyWallet
    /\ \E i \in 1..Len(last.txid.vin) : IsMine(last.txid.vin[i].prevout) = "watch_only"

\* C10: can_be_bumped returns false for every transaction id that is unknown to
\* the wallet, or not at depth 0, or does not signal replaceability, or has a
\* replaced_by_txid entry, or a wallet descendant, or a mempool descendant.
C10_NotBumpableIsFalse ==
    (last.op = "can_be_bumped" /\ (~Known(last.txid) \/ ~Bumpable(last.txid)))
    => last.result = "false"

\* C10 witness: a wallet transaction whose only fault is its depth was refused
C10_Witness ==
    /\ last.op = "can_be_bumped" /\ last.result = "false"
    /\ last.txid \in DOMAIN mapWallet
    /\ DepthOf(last.txid) # 0
    /\ SignalsOptInRBF(last.txid) /\ ~AlreadyBumped(last.txid)
    /\ ~HasWalletSpend(last.txid) /\ ~hasDescendantsInMempool(last.txid)
    /\ AllInputsMine(last.txid, OwnershipFilter)
    /\ (fParticlMode => isParticlWallet)

\* the by-reference results and the inputs of the build just made
BuiltFee == caller[last.who].new_fee
BuiltOldFee == caller[last.who].old_fee
BuiltTx == caller[last.who].mtx
AskedEnv == last.asked.env
AskedControl == last.asked.cc

\* C11 (as claimed, for the total-bump strategy): a total-bump build that
\* returns OK reports a new_fee no higher than the wallet's maximum transaction
\* fee.
C11_OkFeeWithinCeiling ==
    (last.op = "total_bump" /\ last.result = OK) => BuiltFee <= AskedEnv.max_tx_fee

\* the rule-4 floor of the original of the build just made: its fee rate + 1 +
\* the larger of the node's and the wallet's relay increment
AskedIncrement == Max(AskedEnv.relayIncrementalFee, WALLET_INCREMENTAL_RELAY_FEE)
OldRate == CFeeRate(BuiltOldFee, GetVirtualTransactionSize(last.txid))
RateFloor == OldRate + 1 + AskedIncrement
AskedMaxSize == CalculateMaximumSignedTxSize(last.txid, AskedEnv)

\* C12 (as claimed): every rate-bump that returns OK, with an explicit or an
\* estimated rate, targets a fee rate of at least old rate + 1 + the larger
\* relay increment.
C12_TargetRateAboveFloor ==
    (last.op = "rate_bump" /\ last.result = OK) => last.request.m_feerate >= RateFloor

\* C12 (amended): a rate-bump that returns OK with an estimated rate targets at
\* least old rate + 1 + the larger relay increment; one that returns OK with an
\* explicit rate targets that rate, whose fee at the maximum signed size is at
\* least the old rate's fee plus the larger relay increment's fee at that size.
C12_TargetRateAboveFloorOrTotalAbove ==
    (last.op = "rate_bump" /\ last.result = OK)
    => IF AskedControl.m_feerate = NoRate
       THEN last.request.m_feerate >= RateFloor
       ELSE /\ last.request.m_feerate = AskedControl.m_feerate
            /\ GetFee(AskedControl.m_feerate, AskedMaxSize)
                  >= GetFee(OldRate, AskedMaxSize) + GetFee(AskedIncrement, AskedMaxSize)

\* C12 witness: a rate-bump with an explicit rate below the floor returned OK
C12_Witness ==
    /\ last.op = "rate_bump" /\ last.result = OK
    /\ AskedControl.m_feerate # NoRate
    /\ last.request.m_feerate < RateFloor
    /\ BuiltFee > BuiltOldFee

\* the outpoints the original of the last call spends
OriginalInputs == {last.txid.vin[i].prevout : i \in 1..Len(last.txid.vin)}

\* C13: in every rate-bump that reaches the builder, every input of the
\* original, owned by the wallet or not, is in the forced-input set handed to
\* the builder.
C13_AllInputsForced ==
    (last.op = "rate_bump" /\ last.request.reached)
    => OriginalInputs \subseteq last.request.selected

\* C13 witness: a rate-bump reached the builder for an original with an input
\* the wallet does not own, and that input is forced
C13_Witness ==
    /\ last.op = "rate_bump" /\ last.request.reached
    /\ \E o \in OriginalInputs : IsMine(o) = "no" /\ o \in last.request.selected
    /\ \E o \in OriginalInputs : IsMine(o) # "no" /\ o \in last.request.selected

\* the change output of the original of the last call, and the delta the
\* total-bump priced for it: the priced fee less the old fee
OriginalChange == last.txid.vout[CHOOSE i \in ChangeOutputs(last.txid) : TRUE]
PricedFee ==
    LET floorRate == OldRate + 1 + AskedIncrement
        minFee == GetMinimumFee(AskedEnv, AskedMaxSize)
    IN  IF CFeeRate(minFee, AskedMaxSize) < floorRate
        THEN GetFee(floorRate, AskedMaxSize) ELSE minFee
PricedDelta == PricedFee - BuiltOldFee
ShrunkChange == OriginalChange.nValue - PricedDelta

\* C14: after a total-bump that returns OK, if the change less the delta is at
\* most the dust threshold, the built transaction has the original's outputs
\* without the change output and new_fee = old_fee + delta + the discarded
\* value; otherwise its change output is reduced by exactly the delta, the other
\* outputs are the original's, and new_fee = old_fee + delta.
C14_DustFoldedOrChangeReduced ==
    (last.op = "total_bump" /\ last.result = OK)
    => LET n == CHOOSE i \in ChangeOutputs(last.txid) : TRUE
       IN  /\ PricedDelta > 0
           /\ IF ShrunkChange <= AskedEnv.dustThreshold
              THEN /\ BuiltTx.vout = EraseAt(last.txid.vout, n)
                   /\ ChangeOutputs(BuiltTx) = {}
                   /\ BuiltFee = BuiltOldFee + PricedDelta + ShrunkChange
              ELSE /\ BuiltTx.vout = [last.txid.vout EXCEPT ![n].nValue = @ - PricedDelta]
                   /\ BuiltFee = BuiltOldFee + PricedDelta

\* C14 witness: a total-bump returned OK after discarding a change output that
\* still held value
C14_Witness ==
    /\ last.op = "total_bump" /\ last.result = OK
    /\ ShrunkChange > 0 /\ ShrunkChange <= AskedEnv.dustThreshold
    /\ ChangeOutputs(BuiltTx) = {}
    /\ BuiltFee > BuiltOldFee + PricedDelta

\* the last call was a build that ran the precondition checker on its record
\* (a build leaves the wallet and the chain view as the checker saw them)
BuildReachedChecker ==
    \/ last.op = "total_bump" /\ isParticlWallet /\ last.txid \in DOMAIN mapWallet
    \/ last.op = "rate_bump" /\ last.txid \in DOMAIN mapWallet /\ MissingCoins(last.txid) = {}
HasDescendant == HasWalletSpend(last.txid) \/ hasDescendantsInMempool(last.txid)
NotReplaceableNow ==
    \/ GetTxDepthInMainChain(last.txid) # 0
    \/ ~SignalsOptInRBF(last.txid)
    \/ "replaced_by_txid" \in DOMAIN mapWallet[last.txid].mapValue

\* C15: the precondition checker answers INVALID_PARAMETER for a record with a
\* wallet or mempool descendant, whatever else is wrong with it, and
\* WALLET_ERROR for a record without descendants that is mined or conflicted,
\* does not signal replaceability, or carries replaced_by_txid.
C15_DescendantsFirst ==
    BuildReachedChecker
    => /\ HasDescendant => last.result = INVALID_PARAMETER
       /\ (~HasDescendant /\ NotReplaceableNow) => last.result = WALLET_ERROR

\* C15 witness: the checker answered INVALID_PARAMETER for a record that has a
\* descendant and is also mined, not replaceable or already bumped
C15_Witness ==
    /\ BuildReachedChecker
    /\ HasDescendant /\ NotReplaceableNow
    /\ last.result = INVALID_PARAMETER

\* the last call was refused for the ownership of the inputs
NotMineDiag == Diag("Transaction contains inputs that don't belong to this wallet")
OwnershipRejection ==
    /\ last.result = WALLET_ERROR
    /\ last.errors # <<>>
    /\ last.errors[Len(last.errors)] = NotMineDiag
OwnsAllInputs == AllInputsMine(last.txid, OwnershipFilter)

\* C16: for a record that passes the other checks, a build that requires
\* ownership is refused with WALLET_ERROR for the ownership exactly when some
\* input is not owned by the wallet; a build that does not require it and a
\* commit are never refused for the ownership, and a rate-bump that does not
\* require it gets past the checker whoever owns the inputs.
C16_OwnershipOnlyWhenRequired ==
    /\ (BuildReachedChecker /\ ~HasDescendant /\ ~NotReplaceableNow /\ last.asked.require_mine)
       => (OwnershipRejection <=> ~OwnsAllInputs)
    /\ (BuildReachedChecker /\ ~last.asked.require_mine) => ~OwnershipRejection
    /\ (BuildReachedChecker /\ ~HasDescendant /\ ~NotReplaceableNow /\ ~last.asked.require_mine)
       => (last.result = ABORTED \/ last.request.reached)
    /\ last.op = "commit" => ~OwnershipRejection

\* C16 witness: a commit returned OK for an original with an input the wallet
\* does not own
C16_Witness ==
    /\ last.op = "commit" /\ last.result = OK
    /\ last.txid \in DOMAIN mapWallet
    /\ ~OwnsAllInputs
    /\ Has(last.txid, "replaced_by_txid")

\* C17 (as claimed): a total-bump build, a rate-bump build or a commit called
\* with an id the wallet does not hold (the commit with an empty diagnostic
\* list, so that it gets to look the id up) returns INVALID_ADDRESS_OR_KEY.
C17_UnknownIdIsInvalidKey ==
    [][(/\ CallStep
        /\ last'.op \in {"total_bump", "rate_bump", "commit"}
        /\ ~IsNull(last'.txid)
        /\ last'.txid \notin DOMAIN mapWallet
        /\ last'.op = "commit" => caller[last'.who].errors = <<>>)
       => last'.result = INVALID_ADDRESS_OR_KEY]_vars

\* C18 (as claimed): no build call aborts the process: every total-bump and
\* every rate-bump build, on any kind of wallet, returns a Result.
C18_NoBuildAborts ==
    last.op \in BuildOps => last.result # ABORTED

\* the last call was a rate-bump with an explicit rate that got to the check of
\* that rate: the record is held, its coins were found, the precondition
\* checker passed it, and the wallet is not a Particl wallet
ReachedRateCheck ==
    /\ last.op = "rate_bump"
    /\ last.txid \in DOMAIN mapWallet
    /\ MissingCoins(last.txid) = {}
    /\ PreconditionChecks(last.txid, last.asked.require_mine, <<>>).result = OK
    /\ ~isParticlWallet
    /\ AskedControl.m_feerate # NoRate
NewTotalFee == GetFee(AskedControl.m_feerate, AskedMaxSize)
BelowMempoolMin == AskedControl.m_feerate < AskedEnv.mempoolMinFee
BelowOldPlusIncrement ==
    NewTotalFee < GetFee(OldRate, AskedMaxSize) + GetFee(AskedIncrement, AskedMaxSize)
BelowRequired == NewTotalFee < GetRequiredFee(AskedEnv, AskedMaxSize)
AboveCeiling == NewTotalFee > AskedEnv.max_tx_fee
Refused(result, msg) == last.result = result /\ last.errors = <<Diag(msg)>>

\* C20: the check of an explicit rate returns the first of these that fails: the
\* rate below the mempool minimum (WALLET_ERROR), the new total fee below the
\* old rate's fee plus the relay increment's fee at the maximum size
\* (INVALID_PARAMETER), the new total fee below the required fee
\* (INVALID_PARAMETER), the new total fee above the wallet's ceiling
\* (WALLET_ERROR); when none fails the build goes on to the builder.
C20_RateCheckOrder ==
    ReachedRateCheck
    => IF BelowMempoolMin
       THEN Refused(WALLET_ERROR, "New fee rate is lower than the minimum fee rate to get into the mempool")
       ELSE IF BelowOldPlusIncrement
       THEN Refused(INVALID_PARAMETER, "Insufficient total fee, must be at least oldFee + incrementalFee")
       ELSE IF BelowRequired
       THEN Refused(INVALID_PARAMETER, "Insufficient total fee (cannot be less than required fee)")
       ELSE IF AboveCeiling
       THEN Refused(WALLET_ERROR, "Specified or calculated fee is too high (cannot be higher than -maxtxfee)")
       ELSE last.request.reached

\* C20 witness: an explicit rate whose total fee is both below the old fee plus
\* the increment and above the ceiling was refused with INVALID_PARAMETER
C20_Witness ==
    /\ ReachedRateCheck
    /\ ~BelowMempoolMin /\ BelowOldPlusIncrement /\ AboveCeiling
    /\ last.result = INVALID_PARAMETER

\* a step in which caller c runs statements of an operation (other than the
\* LOCK itself): its by-reference arguments change or its call returns
RunsStatements(c) ==
    \/ caller'[c] # caller[c]
    \/ last' # last /\ last'.who = c
\* a caller is inside a critical section
InCritical(c) == pc[c].at = "locked"

\* C19 (as claimed): every statement of every engine operation runs under the
\* wallet's mutex.
C19_EveryStatementUnderLock ==
    [][\A c \in Callers : RunsStatements(c) => cs_wallet = c]_vars

\* C19 (amended): every step of an engine operation that reads or writes the
\* wallet's records or the chain's answers runs under the wallet's mutex: at
\* most one caller is inside a critical section and it is the holder, the
\* mutex passes on only through a release, the wallet and the broadcast history
\* change only in a step of the holder or of another wallet operation while the
\* mutex is free, and the only statements run without it are the total-bump's
\* reset of new_fee and errors and its WALLET_ERROR return for a wallet that is
\* not a Particl wallet.  The mutex is free between a build and a commit.
C19_WalletAccessUnderLock ==
    [][/\ \A c \in Callers : InCritical(c)' <=> (cs_wallet' = c)
       /\ (cs_wallet # NoHolder /\ cs_wallet' # cs_wallet) => cs_wallet' = NoHolder
       /\ (walletVars' # walletVars \/ broadcast' # broadcast)
          => IF last'.op = "env" THEN cs_wallet = NoHolder
             ELSE cs_wallet = last'.who /\ cs_wallet' = NoHolder
       /\ \A c \in Callers :
             (RunsStatements(c) /\ cs_wallet # c)
             => \/ /\ last' = last
                   /\ caller'[c] = [caller[c] EXCEPT !.new_fee = 0, !.errors = <<>>]
                   /\ pc'[c].op = "total_bump"
                \/ /\ last'.op = "total_bump" /\ ~isParticlWallet
                   /\ last'.result = WALLET_ERROR /\ last'.errors = <<>>
       /\ \A c \in Callers : (RunsStatements(c) /\ cs_wallet = c) => cs_wallet' = NoHolder]_vars

\* C19 witness: while one caller, having built a replacement, waits to commit
\* it, the other caller is inside the critical section of a build
C19_Witness ==
    /\ pc["c1"].at = "waiting" /\ pc["c1"].op = "commit"
    /\ caller["c1"].errors = <<>> /\ ~IsNull(caller["c1"].mtx)
    /\ cs_wallet = "c2" /\ InCritical("c2")
    /\ pc["c2"].op \in BuildOps

\* the last call was a rate-bump without an explicit rate that reached the builder
EstimatedRateBuild ==
    last.op = "rate_bump" /\ last.request.reached /\ AskedControl.m_feerate = NoRate

CheckerAnswer == PreconditionChecks(last.txid, last.asked.require_mine, <<>>)

\* C22 (as claimed): a rate-bump of a held record that fails a precondition
\* returns the checker's Result and diagnostic, also when a previous output
\* of the record cannot be located.
C22_CheckerBeforeHarvest ==
    (/\ last.op = "rate_bump"
     /\ last.txid \in DOMAIN mapWallet
     /\ CheckerAnswer.result # OK)
    => /\ last.result = CheckerAnswer.result
       /\ last.errors = CheckerAnswer.errors

\* the inputs of the last call's record whose previous output is gone
GoneInputs == {i \in 1..Len(last.txid.vin) : last.txid.vin[i].prevout \in spentCoins}

\* C23: a rate-bump of a held record with a previous output that cannot be
\* located returns MISC_ERROR with one diagnostic, naming the first such
\* outpoint in input order, and never reaches the builder.
C23_MissingCoinIsFatal ==
    (last.op = "rate_bump" /\ last.txid \in DOMAIN mapWallet /\ GoneInputs # {})
    => /\ last.result = MISC_ERROR
       /\ Len(last.errors) = 1
       /\ last.errors[1].msg = "is already spent"
       /\ \E i \in GoneInputs :
             /\ last.errors[1].at = last.txid.vin[i].prevout
             /\ \A j \in GoneInputs : i <= j
       /\ ~last.request.reached
       /\ BuiltTx = NullTx

\* C23 witness: the missing outpoint named is that of the second input
C23_Witness ==
    /\ last.op = "rate_bump" /\ last.txid \in DOMAIN mapWallet
    /\ GoneInputs = {2}
    /\ last.result = MISC_ERROR
    /\ last.errors[1].at = last.txid.vin[2].prevout

\* the last call was a total-bump of a held record that passed the checker
TotalBumpPastChecker ==
    /\ last.op = "total_bump" /\ isParticlWallet
    /\ last.txid \in DOMAIN mapWallet
    /\ PreconditionChecks(last.txid, TRUE, <<>>).result = OK
NumChange == Cardinality(ChangeOutputs(last.txid))

\* C24: a total-bump of a record that passed the checker returns WALLET_ERROR
\* when the original has no change output or more than one, and returns OK
\* only for an original with exactly one.
C24_ExactlyOneChange ==
    TotalBumpPastChecker
    => /\ NumChange = 0
          => /\ last.result = WALLET_ERROR
             /\ last.errors = <<Diag("Transaction does not have a change output")>>
       /\ NumChange > 1
          => /\ last.result = WALLET_ERROR
             /\ last.errors = <<Diag("Transaction has multiple change outputs")>>
       /\ last.result = OK => NumChange = 1

\* C24 witness: a total-bump refused for two change outputs
C24_Witness ==
    /\ TotalBumpPastChecker
    /\ NumChange = 2
    /\ last.result = WALLET_ERROR

\* the rate the total-bump priced, and whether the pricing got as far as the
\* change output: the size is known, the fee within the ceiling and the rate
\* not below the mempool minimum
PricedRate ==
    LET viaMinimum == CFeeRate(GetMinimumFee(AskedEnv, AskedMaxSize), AskedMaxSize)
    IN  IF viaMinimum < RateFloor THEN RateFloor ELSE viaMinimum
PricingPassed ==
    /\ TotalBumpPastChecker /\ NumChange = 1
    /\ AskedMaxSize >= 0
    /\ PricedFee <= AskedEnv.max_tx_fee
    /\ PricedRate >= AskedEnv.mempoolMinFee
TooSmallToBump ==
    /\ last.result = WALLET_ERROR
    /\ last.errors = <<Diag("Change output is too small to bump the fee")>>

\* C25: a total-bump whose pricing passed is refused with WALLET_ERROR, change
\* too small to bump, exactly when the change output is worth less than
\* delta = new_fee - old_fee; with a change worth the delta or more it
\* returns OK.
C25_TooSmallIffBelowDelta ==
    /\ PricingPassed
       => /\ TooSmallToBump <=> OriginalChange.nValue < PricedDelta
          /\ OriginalChange.nValue >= PricedDelta => last.result = OK
    /\ (last.op = "total_bump" /\ TooSmallToBump) => PricingPassed

\* C25 witness: a change output worth exactly the delta was accepted
C25_Witness ==
    /\ PricingPassed
    /\ OriginalChange.nValue = PricedDelta
    /\ last.result = OK
    /\ BuiltFee = BuiltOldFee + PricedDelta

\* the value a successful total-bump folded into the fee: what was left of the
\* change output when it was discarded
FoldedValue ==
    IF ChangeOutputs(BuiltTx) = {} THEN OriginalChange.nValue - (PricedFee - BuiltOldFee) ELSE 0

\* C26: in a total-bump that got to the pricing with a known size, new_fee
\* before the dust fold is the larger of the wallet's minimum fee at the
\* maximum signed size and the fee at that size of the rate old rate + 1 + the
\* larger relay increment; a priced rate below the mempool minimum is refused
\* with WALLET_ERROR.
C26_PricedFeeIsLargerOfTwo ==
    (TotalBumpPastChecker /\ NumChange = 1 /\ AskedMaxSize >= 0)
    => LET larger == Max(GetMinimumFee(AskedEnv, AskedMaxSize), GetFee(RateFloor, AskedMaxSize))
       IN  /\ last.result # OK => BuiltFee = larger
           /\ last.result = OK => BuiltFee = larger + FoldedValue
           /\ PricedRate < AskedEnv.mempoolMinFee => last.result = WALLET_ERROR

\* C26 witness: the wallet's minimum fee was the larger one and the priced rate,
\* below the mempool minimum, was refused
C26_Witness ==
    /\ TotalBumpPastChecker /\ NumChange = 1 /\ AskedMaxSize >= 0
    /\ GetMinimumFee(AskedEnv, AskedMaxSize) > GetFee(RateFloor, AskedMaxSize)
    /\ PricedRate < AskedEnv.mempoolMinFee
    /\ last.result = WALLET_ERROR
    /\ last.errors = <<Diag("New fee rate is lower than the minimum fee rate to get into the mempool")>>

\* the built transaction spends the original's inputs in order; its sequence
\* numbers are the original's, or the original's raised to 0xfffffffe
SameOutpoints ==
    /\ Len(BuiltTx.vin) = Len(last.txid.vin)
    /\ \A i \in 1..Len(BuiltTx.vin) : BuiltTx.vin[i].prevout = last.txid.vin[i].prevout
SequencesKept == \A i \in 1..Len(BuiltTx.vin) : BuiltTx.vin[i].nSequence = last.txid.vin[i].nSequence
SequencesRaised ==
    \A i \in 1..Len(BuiltTx.vin) :
        BuiltTx.vin[i].nSequence =
            IF last.txid.vin[i].nSequence >= SEQUENCE_NONRBF
            THEN last.txid.vin[i].nSequence ELSE SEQUENCE_NONRBF

\* C27 (as claimed): when the caller's request does not ask for replaceability
\* signalling (it says no, or says nothing), the transaction a total-bump
\* builds has every sequence number at 0xfffffffe or above, those already
\* there unchanged; when it asks for it, the sequence numbers are the
\* original's.
C27_RaisedUnlessRequested ==
    (last.op = "total_bump" /\ last.result = OK)
    => /\ SameOutpoints
       /\ IF AskedControl.has_signal_rbf /\ AskedControl.signal_rbf
          THEN SequencesKept ELSE SequencesRaised

\* C27 (amended): the sequence numbers are raised when the request says not to
\* signal, or says nothing and the wallet's default is not to signal; they
\* are the original's when the request says to signal, or says nothing and
\* the wallet's default is to signal.
C27_RaisedUnlessRequestedOrDefault ==
    (last.op = "total_bump" /\ last.result = OK)
    => /\ SameOutpoints
       /\ IF AskedControl.has_signal_rbf
          THEN (IF AskedControl.signal_rbf THEN SequencesKept ELSE SequencesRaised)
          ELSE (IF AskedEnv.m_signal_rbf THEN SequencesKept ELSE SequencesRaised)

\* C27 witness: a request that says nothing, on a wallet that signals by
\* default, got a transaction with the original's sequence numbers, one of
\* them below 0xfffffffe and one above
C27_Witness ==
    /\ last.op = "total_bump" /\ last.result = OK
    /\ ~AskedControl.has_signal_rbf /\ AskedEnv.m_signal_rbf
    /\ SequencesKept
    /\ \E i \in 1..Len(BuiltTx.vin) : BuiltTx.vin[i].nSequence < SEQUENCE_NONRBF
    /\ \E i \in 1..Len(BuiltTx.vin) : BuiltTx.vin[i].nSequence > SEQUENCE_NONRBF

\* the original's outputs that are not change, in order
NotChange(out) == ~IsChange(out)
OriginalPayees == SelectSeq(last.txid.vout, NotChange)

\* C28: the payee list a rate-bump hands to the builder is the original's
\* non-change outputs, in order, each with its destination and amount and
\* without fee subtraction; no payee pays to a change destination; the
\* change-destination slot holds the destination of the original's change
\* output (the last one, when there are several) and is unset when there is
\* none.
C28_PayeesVerbatimChangeRedirected ==
    (last.op = "rate_bump" /\ last.request.reached)
    => LET rs == last.request.recipients
           change == ChangeOutputs(last.txid)
       IN  /\ Len(rs) = Len(OriginalPayees)
           /\ \A i \in 1..Len(rs) :
                 /\ rs[i].dest = OriginalPayees[i].dest
                 /\ rs[i].nAmount = OriginalPayees[i].nValue
                 /\ ~rs[i].fSubtractFeeFromAmount
                 /\ rs[i].dest \notin ChangeDests
           /\ change = {} => last.request.destChange = "none"
           /\ change # {}
              => \E i \in change :
                    /\ \A j \in change : j <= i
                    /\ last.request.destChange = last.txid.vout[i].dest

\* C28 witness: an original whose change output comes before its payee
C28_Witness ==
    /\ last.op = "rate_bump" /\ last.request.reached
    /\ Len(last.request.recipients) = 1
    /\ IsChange(last.txid.vout[1])
    /\ last.request.recipients[1].dest = last.txid.vout[2].dest
    /\ last.request.destChange = last.txid.vout[1].dest

\* C29: every rate-bump that reaches the builder asks it for a minimum depth of
\* 1 for the inputs it may add, and allows it to add inputs, whatever minimum
\* depth the caller's request carried.
C29_MinDepthOne ==
    (last.op = "rate_bump" /\ last.request.reached)
    => /\ last.request.m_min_depth = 1
       /\ last.request.m_allow_other_inputs

\* C29 witness: the caller's request carried a minimum depth of 3
C29_Witness ==
    /\ last.op = "rate_bump" /\ last.request.reached
    /\ AskedControl.m_min_depth = 3
    /\ last.request.m_min_depth = 1
    /\ last.result = OK

\* C30: a rate-bump that reaches the builder returns, when the builder
\* succeeds, OK with new_fee the builder's fee and the output transaction the
\* builder's transaction; when the builder fails, WALLET_ERROR with the
\* builder's error string in its one diagnostic, new_fee and the output
\* transaction left as the caller passed them.
C30_BuilderOutcomeHandedOn ==
    [][(last'.op = "rate_bump" /\ last'.request.reached)
       => LET c == last'.who
              res == CreateTransaction(last'.request, last'.asked.env)
          IN  IF res.ok
              THEN /\ last'.result = OK /\ last'.errors = <<>>
                   /\ caller'[c].new_fee = res.fee
                   /\ caller'[c].mtx = res.tx
              ELSE /\ last'.result = WALLET_ERROR
                   /\ last'.errors = <<Diag("Unable to create transaction. " \o res.error)>>
                   /\ caller'[c].new_fee = caller[c].new_fee
                   /\ caller'[c].mtx = caller[c].mtx]_vars

\* C30 witness: the builder failed in a second build, and the caller still
\* holds the fee and the transaction of its first build
C30_Witness ==
    /\ last.op = "rate_bump" /\ last.request.reached
    /\ last.result = WALLET_ERROR
    /\ BuiltFee > 0 /\ ~IsNull(BuiltTx)

\* the answer of the record checker for a record of the wallet
RecordAnswer(hash) == PreconditionChecksRecord(hash, <<>>)
RecordHasDescendant(hash) == hash \in walletSpends \/ hash \in mempoolDesc

\* C31 (as claimed): the checker for the second record representation returns
\* WALLET_ERROR for every record, whatever the record's state.
C31_RecordCheckerAlwaysWalletError ==
    \A hash \in DOMAIN mapRecords : RecordAnswer(hash).result = WALLET_ERROR

\* C31 (amended): the checker for the second record representation never
\* returns OK: it returns INVALID_PARAMETER for a record with a descendant in
\* the wallet or in the mempool and WALLET_ERROR for every other record, with
\* exactly one diagnostic; can_be_bumped of such a record is false.
C31_RecordCheckerNeverOk ==
    /\ \A hash \in DOMAIN mapRecords :
          /\ RecordAnswer(hash).result =
                IF RecordHasDescendant(hash) THEN INVALID_PARAMETER ELSE WALLET_ERROR
          /\ Len(RecordAnswer(hash).errors) = 1
    /\ (last.op = "can_be_bumped" /\ last.txid \in DOMAIN mapRecords \ DOMAIN mapWallet)
          => last.result = "false"

\* C31 witness: can_be_bumped was asked of an unconfirmed record that has a
\* descendant
C31_Witness ==
    /\ last.op = "can_be_bumped" /\ last.txid = TxRecord
    /\ TxRecord \in DOMAIN mapRecords
    /\ RecordHasDescendant(TxRecord)
    /\ mapRecords[TxRecord].depth = 0

\* the inputs of the original of the build just made, by previous output
InputSpending(o) ==
    CHOOSE txin \in {last.txid.vin[i] : i \in 1..Len(last.txid.vin)} : txin.prevout = o
NotOwnedInputs == {o \in OriginalInputs : IsMine(o) = "no"}

\* C32: the request a rate-bump hands to the builder carries a weight override
\* for exactly the original's inputs whose previous output the wallet does not
\* own (neither spendable nor watch-only); each override is the input's
\* current weight plus the signature slack, which is not negative, so no
\* override is below the current weight.
C32_OverridesForForeignInputsOnly ==
    (last.op = "rate_bump" /\ last.request.reached)
    => /\ DOMAIN last.request.inputWeights = NotOwnedInputs
       /\ \A o \in DOMAIN last.request.inputWeights :
             /\ last.request.inputWeights[o]
                   = GetTransactionInputWeight(InputSpending(o)) + AskedEnv.weightDiffToMax
             /\ last.request.inputWeights[o] >= GetTransactionInputWeight(InputSpending(o))

\* C32 witness: a request for an original with one owned and one foreign
\* input, the foreign one alone overridden, above its current weight
C32_Witness ==
    /\ last.op = "rate_bump" /\ last.request.reached
    /\ last.txid = TxForeign
    /\ AskedEnv.weightDiffToMax > 0
    /\ DOMAIN last.request.inputWeights = {"e1"}
    /\ last.request.inputWeights["e1"] > GetTransactionInputWeight(InputSpending("e1"))

\* the total-bump just made got to its assertion on the fee difference (line
\* 322): it passed, or it ended the process
PastDeltaAssert ==
    /\ last.op = "total_bump"
    /\ \/ last.result \in {OK, ABORTED}
       \/ last.errors = <<Diag("Change output is too small to bump the fee")>>

\* C33: a total-bump whose maximum signed size is at least the original's
\* virtual size and whose old fee is not negative never fails its assertion
\* that the fee difference is positive; a total-bump that gets past the
\* assertion, and so every successful one, has new_fee > old_fee.
C33_DeltaPositive ==
    (PastDeltaAssert /\ AskedMaxSize >= GetVirtualTransactionSize(last.txid)
        /\ BuiltOldFee >= 0)
    => /\ last.result # ABORTED
       /\ BuiltFee > BuiltOldFee

\* C33 witness: a successful total-bump of an original whose fee rate was
\* rounded down, priced at a size above the original's
C33_Witness ==
    /\ last.op = "total_bump" /\ last.result = OK
    /\ (BuiltOldFee * 1000) % GetVirtualTransactionSize(last.txid) # 0
    /\ AskedMaxSize > GetVirtualTransactionSize(last.txid)
    /\ BuiltOldFee > 0
    /\ BuiltFee > BuiltOldFee

\* C34: every successful total-bump conserves value: the built transaction's
\* output value plus new_fee is the original's output value plus old_fee; its
\* inputs spend the original's previous outputs in the original's order, and
\* its outputs other than change are the original's, in the original's order.
C34_TotalBumpConservesValue ==
    (last.op = "total_bump" /\ last.result = OK)
    => /\ GetValueOut(BuiltTx) + BuiltFee = GetValueOut(last.txid) + BuiltOldFee
       /\ Len(BuiltTx.vin) = Len(last.txid.vin)
       /\ \A i \in 1..Len(last.txid.vin) : BuiltTx.vin[i].prevout = last.txid.vin[i].prevout
       /\ SelectSeq(BuiltTx.vout, NotChange) = SelectSeq(last.txid.vout, NotChange)

\* C34 witness: a successful total-bump of a two-input original moved value
\* from the outputs to the fee
C34_Witness ==
    /\ last.op = "total_bump" /\ last.result = OK
    /\ Len(last.txid.vin) = 2
    /\ GetValueOut(BuiltTx) < GetValueOut(last.txid)
    /\ BuiltFee - BuiltOldFee = GetValueOut(last.txid) - GetValueOut(BuiltTx)

\* C35: a commit called with a diagnostics list that is not empty, or with a
\* null transaction id, returns MISC_ERROR; it does not run the precondition
\* check (the list gains no diagnostic of the checker, and the Result is
\* MISC_ERROR whatever state the record is in), broadcasts nothing, inserts no
\* record, stamps no record and leaves bumped_txid alone.
C35_GuardedCommitDoesNothing ==
    [][\A c \in Callers :
          (last'.op = "commit" /\ last'.who = c /\ CallStep
              /\ (caller[c].errors # <<>> \/ IsNull(last'.txid)))
          => /\ last'.result = MISC_ERROR
             /\ caller'[c].errors =
                   IF caller[c].errors # <<>> THEN caller[c].errors
                   ELSE <<Diag("Invalid or non-wallet transaction id")>>
             /\ mapWallet' = mapWallet
             /\ broadcast' = broadcast
             /\ caller'[c].bumped_txid = caller[c].bumped_txid]_vars

\* C35 witness: a commit refused for the list a failed build left, of a record
\* the checker would have refused with another Result
C35_Witness ==
    /\ last.op = "commit" /\ last.result = MISC_ERROR
    /\ last.txid \in DOMAIN mapWallet
    /\ HasDescendant
    /\ last.errors = <<Diag("Transaction has descendants in the wallet")>>
    /\ broadcast = <<>>

CheckerDiags ==
    {Diag("Transaction has descendants in the wallet"),
     Diag("Transaction has descendants in the mempool"),
     Diag("Transaction has been mined, or is conflicted with a mined transaction"),
     Diag("Transaction is not BIP 125 replaceable"),
     Diag("Cannot bump transaction which was already bumped"),
     Diag("Transaction contains inputs that don't belong to this wallet")}
RefusedByChecker(b) == b.errors # <<>> /\ b.errors[Len(b.errors)] \in CheckerDiags

\* C37: in a wallet state where can_be_bumped of an id is true, no build of
\* that id is refused by the precondition checker (total-bump, and rate-bump
\* with or without require_mine), and a commit for that id, whose check does
\* not require ownership, passes its check and returns OK.
C37_BumpableMeansChecksPass ==
    (last.op = "can_be_bumped" /\ last.result = "true")
    => /\ last.txid \in DOMAIN mapWallet
       /\ ~RefusedByChecker(CreateTotalBumpTransaction(last.txid, BaseControl, BaseEnv, FreshCaller))
       /\ \A require_mine \in BOOLEAN :
             ~RefusedByChecker(CreateRateBumpTransaction(last.txid, BaseControl, BaseEnv,
                                                         FreshCaller, require_mine))
       /\ \A stamped \in BOOLEAN :
             CommitTransaction(last.txid, TxReplacement(last.txid), <<>>, NullTx, stamped).result = OK

\* C37 witness: can_be_bumped is true in a Particl wallet whose total-bump of
\* the id gets past the checker and succeeds
C37_Witness ==
    /\ last.op = "can_be_bumped" /\ last.result = "true"
    /\ isParticlWallet
    /\ CreateTotalBumpTransaction(last.txid, BaseControl, BaseEnv, FreshCaller).result = OK
    /\ CommitTransaction(last.txid, TxReplacement(last.txid), <<>>, NullTx, TRUE).result = OK

\* C38 (as claimed): a build that returns a Result other than OK leaves the
\* caller's output transaction as it was before the call.
C38_FailedBuildKeepsOutputTx ==
    [][\A c \in Callers :
          (CallStep /\ last'.op \in BuildOps /\ last'.who = c
              /\ last'.result \in Results \ {OK})
          => caller'[c].mtx = caller[c].mtx]_vars

\* the rate-bump just made had its explicit rate accepted by CheckFeeRate
ExplicitRateAccepted ==
    /\ ReachedRateCheck
    /\ CheckFeeRate(last.txid, AskedControl.m_feerate, AskedMaxSize, BuiltOldFee, <<>>,
                    AskedEnv).result = OK

\* C39: whenever the check of an explicit rate returns OK at a maximum size
\* that is at least the original's virtual size, the new total fee (the rate's
\* fee at the maximum size) is strictly above the old fee.
C39_AcceptedRatePaysMore ==
    (ExplicitRateAccepted /\ AskedMaxSize >= GetVirtualTransactionSize(last.txid))
    => /\ NewTotalFee > BuiltOldFee
       /\ last.request.reached

\* C39 witness: an explicit rate was accepted for an original whose old rate
\* was rounded down, at a maximum size above the original's
C39_Witness ==
    /\ ExplicitRateAccepted
    /\ AskedMaxSize > GetVirtualTransactionSize(last.txid)
    /\ (BuiltOldFee * 1000) % GetVirtualTransactionSize(last.txid) # 0
    /\ NewTotalFee > BuiltOldFee

\* the total-bump just made got as far as computing the maximum signed size
ReachedSizeComputation ==
    /\ last.op = "total_bump"
    /\ isParticlWallet /\ last.txid \in DOMAIN mapWallet
    /\ PreconditionChecks(last.txid, TRUE, <<>>).result = OK
    /\ Cardinality(ChangeOutputs(last.txid)) = 1

====
